---- MODULE Spec2Model ----
(***************************************************************************)
(* Model of the financial-flow transaction pipeline: the format parsers    *)
(* (parseRevolutCSV, parseMillenniumCSV, parseGenericXLSX), the rule       *)
(* engine (applyRulesToTransaction), the upload dispatcher                 *)
(* (uploadFileService) and the App component's state and handlers.         *)
(*                                                                         *)
(* Strings are sequences of UTF-16 code units, so that toLowerCase,        *)
(* startsWith, includes, split, replace and parseFloat are computed the    *)
(* way the JavaScript code computes them.  A code unit is the string of    *)
(* its one character; the code units that cannot be written so (the       *)
(* control characters but tab, line feed, form feed and carriage return,   *)
(* U+0060, U+007F..U+009F, the code units above U+00FF whose low byte is   *)
(* below 80 and the surrogates) are the six characters "U+hhhh" of their   *)
(* name.  Numbers are the doubles: NaN, Infinity, -Infinity, or            *)
(* (-1)^neg * m * 2^e with m a natural number of up to 53 binary digits,   *)
(* odd unless the number is 0 or -0; every operation rounds as the engine  *)
(* (V8) does.  Dates are instants, invalid or held by their fields in UTC; *)
(* local times go through the time zone of the host.                       *)
(* Optional fields carry the value "undefined"; booleans of optional       *)
(* fields are "true"/"false".                                              *)
(***************************************************************************)
EXTENDS Integers, Sequences, FiniteSets, TLC


(***************************************************************************)
(* Bounds of the model                                                     *)
(***************************************************************************)
MaxTx == 2
MaxRules == 1
MaxNow == 2
MaxAppNow == 1
MaxRows == 2
MaxRuleList == 2
MaxImportTx == 3
MaxRuleCount == 2
MaxStored == 2
MaxReads == 2

\* A value that a definition uses more than once is named where it is used:
\*   (CHOOSE val \in { body : x \in {e} } : TRUE)
\* is body with x standing for e, and e is computed once.

(***************************************************************************)
(* Strings                                                                 *)
(***************************************************************************)
Str0 == << >>

UpperHexDigits ==
  <<"0","1","2","3","4","5","6","7","8","9","A","B","C","D","E","F">>

\* a code unit that is written by its name (U+ and four digits), and its
\* code
IsNamed(c) == Len(c) = 6

HexValue(h) == (CHOOSE i \in 1..16 : UpperHexDigits[i] = h) - 1

CodeOf(c) ==
  4096 * HexValue(SubSeq(c, 3, 3)) + 256 * HexValue(SubSeq(c, 4, 4))
    + 16 * HexValue(SubSeq(c, 5, 5)) + HexValue(SubSeq(c, 6, 6))

\* the name of the code unit of code n
UnitName(n) ==
  "U+" \o UpperHexDigits[(n \div 4096) + 1] \o UpperHexDigits[((n \div 256) % 16) + 1]
       \o UpperHexDigits[((n \div 16) % 16) + 1] \o UpperHexDigits[(n % 16) + 1]

\* the surrogates: U+D800..U+DBFF and U+DC00..U+DFFF
IsHighSurrogate(c) == IsNamed(c) /\ CodeOf(c) >= 55296 /\ CodeOf(c) <= 56319

IsLowSurrogate(c) == IsNamed(c) /\ CodeOf(c) >= 56320 /\ CodeOf(c) <= 57343

\* s holds a surrogate pair at positions k and k + 1, and the code point of
\* that pair
IsPairAt(s, k) ==
  k >= 1 /\ k < Len(s) /\ IsHighSurrogate(s[k]) /\ IsLowSurrogate(s[k + 1])

PairCode(s, k) == 65536 + 1024 * (CodeOf(s[k]) - 55296) + (CodeOf(s[k + 1]) - 56320)

\* the surrogate pair of a code point from U+10000
PairOf(cp) ==
  <<UnitName(55296 + ((cp - 65536) \div 1024)), UnitName(56320 + ((cp - 65536) % 1024))>>

\* the characters of U+0000..U+FFFF whose lower case is another character
\* of that range (the simple case mappings of Unicode 17, the version of
\* the engine's tables)
UpperChars ==
  <<
    "A","B","C","D","E","F","G","H","I","J","K","L","M","N","O","P","Q","R","S","T","U","V","W",
    "X","Y","Z","À","Á","Â","Ã","Ä","Å","Æ","Ç","È","É","Ê","Ë","Ì","Í","Î","Ï","Ð","Ñ","Ò","Ó",
    "Ô","Õ","Ö","Ø","Ù","Ú","Û","Ü","Ý","Þ","U+0100","U+0102","U+0104","U+0106","U+0108","U+010A",
    "U+010C","U+010E","U+0110","U+0112","U+0114","U+0116","U+0118","U+011A","U+011C","U+011E",
    "U+0120","U+0122","U+0124","U+0126","U+0128","U+012A","U+012C","U+012E","U+0132","U+0134",
    "U+0136","U+0139","U+013B","U+013D","U+013F","U+0141","U+0143","U+0145","U+0147","U+014A",
    "U+014C","U+014E","U+0150","U+0152","U+0154","U+0156","U+0158","U+015A","U+015C","U+015E",
    "U+0160","U+0162","U+0164","U+0166","U+0168","U+016A","U+016C","U+016E","U+0170","U+0172",
    "U+0174","U+0176","U+0178","U+0179","U+017B","U+017D","Ɓ","Ƃ","Ƅ","Ɔ","Ƈ","Ɖ","Ɗ","Ƌ","Ǝ","Ə",
    "Ɛ","Ƒ","Ɠ","Ɣ","Ɩ","Ɨ","Ƙ","Ɯ","Ɲ","Ɵ","Ơ","Ƣ","Ƥ","Ʀ","Ƨ","Ʃ","Ƭ","Ʈ","Ư","Ʊ","Ʋ","Ƴ","Ƶ",
    "Ʒ","Ƹ","Ƽ","Ǆ","ǅ","Ǉ","ǈ","Ǌ","ǋ","Ǎ","Ǐ","Ǒ","Ǔ","Ǖ","Ǘ","Ǚ","Ǜ","Ǟ","Ǡ","Ǣ","Ǥ","Ǧ","Ǩ",
    "Ǫ","Ǭ","Ǯ","Ǳ","ǲ","Ǵ","Ƕ","Ƿ","Ǹ","Ǻ","Ǽ","Ǿ","U+0200","U+0202","U+0204","U+0206","U+0208",
    "U+020A","U+020C","U+020E","U+0210","U+0212","U+0214","U+0216","U+0218","U+021A","U+021C",
    "U+021E","U+0220","U+0222","U+0224","U+0226","U+0228","U+022A","U+022C","U+022E","U+0230",
    "U+0232","U+023A","U+023B","U+023D","U+023E","U+0241","U+0243","U+0244","U+0245","U+0246",
    "U+0248","U+024A","U+024C","U+024E","U+0370","U+0372","U+0376","U+037F","Ά","Έ","Ή","Ί","Ό",
    "Ύ","Ώ","Α","Β","Γ","Δ","Ε","Ζ","Η","Θ","Ι","Κ","Λ","Μ","Ν","Ξ","Ο","Π","Ρ","Σ","Τ","Υ","Φ",
    "Χ","Ψ","Ω","Ϊ","Ϋ","Ϗ","Ϙ","Ϛ","Ϝ","Ϟ","Ϡ","Ϣ","Ϥ","Ϧ","Ϩ","Ϫ","Ϭ","Ϯ","ϴ","Ϸ","Ϲ","Ϻ","Ͻ",
    "Ͼ","Ͽ","U+0400","U+0401","U+0402","U+0403","U+0404","U+0405","U+0406","U+0407","U+0408",
    "U+0409","U+040A","U+040B","U+040C","U+040D","U+040E","U+040F","U+0410","U+0411","U+0412",
    "U+0413","U+0414","U+0415","U+0416","U+0417","U+0418","U+0419","U+041A","U+041B","U+041C",
    "U+041D","U+041E","U+041F","U+0420","U+0421","U+0422","U+0423","U+0424","U+0425","U+0426",
    "U+0427","U+0428","U+0429","U+042A","U+042B","U+042C","U+042D","U+042E","U+042F","U+0460",
    "U+0462","U+0464","U+0466","U+0468","U+046A","U+046C","U+046E","U+0470","U+0472","U+0474",
    "U+0476","U+0478","U+047A","U+047C","U+047E","Ҁ","Ҋ","Ҍ","Ҏ","Ґ","Ғ","Ҕ","Җ","Ҙ","Қ","Ҝ","Ҟ",
    "Ҡ","Ң","Ҥ","Ҧ","Ҩ","Ҫ","Ҭ","Ү","Ұ","Ҳ","Ҵ","Ҷ","Ҹ","Һ","Ҽ","Ҿ","Ӏ","Ӂ","Ӄ","Ӆ","Ӈ","Ӊ","Ӌ",
    "Ӎ","Ӑ","Ӓ","Ӕ","Ӗ","Ә","Ӛ","Ӝ","Ӟ","Ӡ","Ӣ","Ӥ","Ӧ","Ө","Ӫ","Ӭ","Ӯ","Ӱ","Ӳ","Ӵ","Ӷ","Ӹ","Ӻ",
    "Ӽ","Ӿ","U+0500","U+0502","U+0504","U+0506","U+0508","U+050A","U+050C","U+050E","U+0510",
    "U+0512","U+0514","U+0516","U+0518","U+051A","U+051C","U+051E","U+0520","U+0522","U+0524",
    "U+0526","U+0528","U+052A","U+052C","U+052E","U+0531","U+0532","U+0533","U+0534","U+0535",
    "U+0536","U+0537","U+0538","U+0539","U+053A","U+053B","U+053C","U+053D","U+053E","U+053F",
    "U+0540","U+0541","U+0542","U+0543","U+0544","U+0545","U+0546","U+0547","U+0548","U+0549",
    "U+054A","U+054B","U+054C","U+054D","U+054E","U+054F","U+0550","U+0551","U+0552","U+0553",
    "U+0554","U+0555","U+0556","Ⴀ","Ⴁ","Ⴂ","Ⴃ","Ⴄ","Ⴅ","Ⴆ","Ⴇ","Ⴈ","Ⴉ","Ⴊ","Ⴋ","Ⴌ","Ⴍ","Ⴎ","Ⴏ",
    "Ⴐ","Ⴑ","Ⴒ","Ⴓ","Ⴔ","Ⴕ","Ⴖ","Ⴗ","Ⴘ","Ⴙ","Ⴚ","Ⴛ","Ⴜ","Ⴝ","Ⴞ","Ⴟ","Ⴠ","Ⴡ","Ⴢ","Ⴣ","Ⴤ","Ⴥ","Ⴧ",
    "Ⴭ","Ꭰ","Ꭱ","Ꭲ","Ꭳ","Ꭴ","Ꭵ","Ꭶ","Ꭷ","Ꭸ","Ꭹ","Ꭺ","Ꭻ","Ꭼ","Ꭽ","Ꭾ","Ꭿ","Ꮀ","Ꮁ","Ꮂ","Ꮃ","Ꮄ","Ꮅ",
    "Ꮆ","Ꮇ","Ꮈ","Ꮉ","Ꮊ","Ꮋ","Ꮌ","Ꮍ","Ꮎ","Ꮏ","Ꮐ","Ꮑ","Ꮒ","Ꮓ","Ꮔ","Ꮕ","Ꮖ","Ꮗ","Ꮘ","Ꮙ","Ꮚ","Ꮛ","Ꮜ",
    "Ꮝ","Ꮞ","Ꮟ","Ꮠ","Ꮡ","Ꮢ","Ꮣ","Ꮤ","Ꮥ","Ꮦ","Ꮧ","Ꮨ","Ꮩ","Ꮪ","Ꮫ","Ꮬ","Ꮭ","Ꮮ","Ꮯ","Ꮰ","Ꮱ","Ꮲ","Ꮳ",
    "Ꮴ","Ꮵ","Ꮶ","Ꮷ","Ꮸ","Ꮹ","Ꮺ","Ꮻ","Ꮼ","Ꮽ","Ꮾ","Ꮿ","Ᏸ","Ᏹ","Ᏺ","Ᏻ","Ᏼ","Ᏽ","Ᲊ","Ა","Ბ","Გ","Დ",
    "Ე","Ვ","Ზ","Თ","Ი","Კ","Ლ","Მ","Ნ","Ო","Პ","Ჟ","Რ","Ს","Ტ","Უ","Ფ","Ქ","Ღ","Ყ","Შ","Ჩ","Ც",
    "Ძ","Წ","Ჭ","Ხ","Ჯ","Ჰ","Ჱ","Ჲ","Ჳ","Ჴ","Ჵ","Ჶ","Ჷ","Ჸ","Ჹ","Ჺ","Ჽ","Ჾ","Ჿ","U+1E00","U+1E02",
    "U+1E04","U+1E06","U+1E08","U+1E0A","U+1E0C","U+1E0E","U+1E10","U+1E12","U+1E14","U+1E16",
    "U+1E18","U+1E1A","U+1E1C","U+1E1E","U+1E20","U+1E22","U+1E24","U+1E26","U+1E28","U+1E2A",
    "U+1E2C","U+1E2E","U+1E30","U+1E32","U+1E34","U+1E36","U+1E38","U+1E3A","U+1E3C","U+1E3E",
    "U+1E40","U+1E42","U+1E44","U+1E46","U+1E48","U+1E4A","U+1E4C","U+1E4E","U+1E50","U+1E52",
    "U+1E54","U+1E56","U+1E58","U+1E5A","U+1E5C","U+1E5E","U+1E60","U+1E62","U+1E64","U+1E66",
    "U+1E68","U+1E6A","U+1E6C","U+1E6E","U+1E70","U+1E72","U+1E74","U+1E76","U+1E78","U+1E7A",
    "U+1E7C","U+1E7E","Ẁ","Ẃ","Ẅ","Ẇ","Ẉ","Ẋ","Ẍ","Ẏ","Ẑ","Ẓ","Ẕ","ẞ","Ạ","Ả","Ấ","Ầ","Ẩ","Ẫ","Ậ",
    "Ắ","Ằ","Ẳ","Ẵ","Ặ","Ẹ","Ẻ","Ẽ","Ế","Ề","Ể","Ễ","Ệ","Ỉ","Ị","Ọ","Ỏ","Ố","Ồ","Ổ","Ỗ","Ộ","Ớ",
    "Ờ","Ở","Ỡ","Ợ","Ụ","Ủ","Ứ","Ừ","Ử","Ữ","Ự","Ỳ","Ỵ","Ỷ","Ỹ","Ỻ","Ỽ","Ỿ","U+1F08","U+1F09",
    "U+1F0A","U+1F0B","U+1F0C","U+1F0D","U+1F0E","U+1F0F","U+1F18","U+1F19","U+1F1A","U+1F1B",
    "U+1F1C","U+1F1D","U+1F28","U+1F29","U+1F2A","U+1F2B","U+1F2C","U+1F2D","U+1F2E","U+1F2F",
    "U+1F38","U+1F39","U+1F3A","U+1F3B","U+1F3C","U+1F3D","U+1F3E","U+1F3F","U+1F48","U+1F49",
    "U+1F4A","U+1F4B","U+1F4C","U+1F4D","U+1F59","U+1F5B","U+1F5D","U+1F5F","U+1F68","U+1F69",
    "U+1F6A","U+1F6B","U+1F6C","U+1F6D","U+1F6E","U+1F6F","ᾈ","ᾉ","ᾊ","ᾋ","ᾌ","ᾍ","ᾎ","ᾏ","ᾘ","ᾙ",
    "ᾚ","ᾛ","ᾜ","ᾝ","ᾞ","ᾟ","ᾨ","ᾩ","ᾪ","ᾫ","ᾬ","ᾭ","ᾮ","ᾯ","Ᾰ","Ᾱ","Ὰ","Ά","ᾼ","Ὲ","Έ","Ὴ","Ή",
    "ῌ","Ῐ","Ῑ","Ὶ","Ί","Ῠ","Ῡ","Ὺ","Ύ","Ῥ","Ὸ","Ό","Ὼ","Ώ","ῼ","U+2126","U+212A","U+212B",
    "U+2132","U+2160","U+2161","U+2162","U+2163","U+2164","U+2165","U+2166","U+2167","U+2168",
    "U+2169","U+216A","U+216B","U+216C","U+216D","U+216E","U+216F","Ↄ","Ⓐ","Ⓑ","Ⓒ","Ⓓ","Ⓔ","Ⓕ",
    "Ⓖ","Ⓗ","Ⓘ","Ⓙ","Ⓚ","Ⓛ","Ⓜ","Ⓝ","Ⓞ","Ⓟ","Ⓠ","Ⓡ","Ⓢ","Ⓣ","Ⓤ","Ⓥ","Ⓦ","Ⓧ","Ⓨ","Ⓩ","U+2C00",
    "U+2C01","U+2C02","U+2C03","U+2C04","U+2C05","U+2C06","U+2C07","U+2C08","U+2C09","U+2C0A",
    "U+2C0B","U+2C0C","U+2C0D","U+2C0E","U+2C0F","U+2C10","U+2C11","U+2C12","U+2C13","U+2C14",
    "U+2C15","U+2C16","U+2C17","U+2C18","U+2C19","U+2C1A","U+2C1B","U+2C1C","U+2C1D","U+2C1E",
    "U+2C1F","U+2C20","U+2C21","U+2C22","U+2C23","U+2C24","U+2C25","U+2C26","U+2C27","U+2C28",
    "U+2C29","U+2C2A","U+2C2B","U+2C2C","U+2C2D","U+2C2E","U+2C2F","U+2C60","U+2C62","U+2C63",
    "U+2C64","U+2C67","U+2C69","U+2C6B","U+2C6D","U+2C6E","U+2C6F","U+2C70","U+2C72","U+2C75",
    "U+2C7E","U+2C7F","Ⲁ","Ⲃ","Ⲅ","Ⲇ","Ⲉ","Ⲋ","Ⲍ","Ⲏ","Ⲑ","Ⲓ","Ⲕ","Ⲗ","Ⲙ","Ⲛ","Ⲝ","Ⲟ","Ⲡ","Ⲣ","Ⲥ",
    "Ⲧ","Ⲩ","Ⲫ","Ⲭ","Ⲯ","Ⲱ","Ⲳ","Ⲵ","Ⲷ","Ⲹ","Ⲻ","Ⲽ","Ⲿ","Ⳁ","Ⳃ","Ⳅ","Ⳇ","Ⳉ","Ⳋ","Ⳍ","Ⳏ","Ⳑ","Ⳓ",
    "Ⳕ","Ⳗ","Ⳙ","Ⳛ","Ⳝ","Ⳟ","Ⳡ","Ⳣ","Ⳬ","Ⳮ","Ⳳ","U+A640","U+A642","U+A644","U+A646","U+A648",
    "U+A64A","U+A64C","U+A64E","U+A650","U+A652","U+A654","U+A656","U+A658","U+A65A","U+A65C",
    "U+A65E","U+A660","U+A662","U+A664","U+A666","U+A668","U+A66A","U+A66C","Ꚁ","Ꚃ","Ꚅ","Ꚇ","Ꚉ",
    "Ꚋ","Ꚍ","Ꚏ","Ꚑ","Ꚓ","Ꚕ","Ꚗ","Ꚙ","Ꚛ","U+A722","U+A724","U+A726","U+A728","U+A72A","U+A72C",
    "U+A72E","U+A732","U+A734","U+A736","U+A738","U+A73A","U+A73C","U+A73E","U+A740","U+A742",
    "U+A744","U+A746","U+A748","U+A74A","U+A74C","U+A74E","U+A750","U+A752","U+A754","U+A756",
    "U+A758","U+A75A","U+A75C","U+A75E","U+A760","U+A762","U+A764","U+A766","U+A768","U+A76A",
    "U+A76C","U+A76E","U+A779","U+A77B","U+A77D","U+A77E","Ꞁ","Ꞃ","Ꞅ","Ꞇ","Ꞌ","Ɥ","Ꞑ","Ꞓ","Ꞗ","Ꞙ",
    "Ꞛ","Ꞝ","Ꞟ","Ꞡ","Ꞣ","Ꞥ","Ꞧ","Ꞩ","Ɦ","Ɜ","Ɡ","Ɬ","Ɪ","Ʞ","Ʇ","Ʝ","Ꭓ","Ꞵ","Ꞷ","Ꞹ","Ꞻ","Ꞽ","Ꞿ",
    "Ꟁ","Ꟃ","Ꞔ","Ʂ","Ᶎ","Ꟈ","Ꟊ","Ɤ","Ꟍ","꟎","Ꟑ","꟒","꟔","Ꟗ","Ꟙ","Ꟛ","Ƛ","Ꟶ","U+FF21","U+FF22",
    "U+FF23","U+FF24","U+FF25","U+FF26","U+FF27","U+FF28","U+FF29","U+FF2A","U+FF2B","U+FF2C",
    "U+FF2D","U+FF2E","U+FF2F","U+FF30","U+FF31","U+FF32","U+FF33","U+FF34","U+FF35","U+FF36",
    "U+FF37","U+FF38","U+FF39","U+FF3A" >>

\* their lower case, position by position
LowerChars ==
  <<
    "a","b","c","d","e","f","g","h","i","j","k","l","m","n","o","p","q","r","s","t","u","v","w",
    "x","y","z","à","á","â","ã","ä","å","æ","ç","è","é","ê","ë","ì","í","î","ï","ð","ñ","ò","ó",
    "ô","õ","ö","ø","ù","ú","û","ü","ý","þ","U+0101","U+0103","U+0105","U+0107","U+0109","U+010B",
    "U+010D","U+010F","U+0111","U+0113","U+0115","U+0117","U+0119","U+011B","U+011D","U+011F",
    "U+0121","U+0123","U+0125","U+0127","U+0129","U+012B","U+012D","U+012F","U+0133","U+0135",
    "U+0137","U+013A","U+013C","U+013E","U+0140","U+0142","U+0144","U+0146","U+0148","U+014B",
    "U+014D","U+014F","U+0151","U+0153","U+0155","U+0157","U+0159","U+015B","U+015D","U+015F",
    "U+0161","U+0163","U+0165","U+0167","U+0169","U+016B","U+016D","U+016F","U+0171","U+0173",
    "U+0175","U+0177","ÿ","U+017A","U+017C","U+017E","U+0253","ƃ","ƅ","U+0254","ƈ","U+0256",
    "U+0257","ƌ","ǝ","U+0259","U+025B","ƒ","U+0260","U+0263","U+0269","U+0268","ƙ","U+026F",
    "U+0272","U+0275","ơ","ƣ","ƥ","ʀ","ƨ","ʃ","ƭ","ʈ","ư","ʊ","ʋ","ƴ","ƶ","ʒ","ƹ","ƽ","ǆ","ǆ","ǉ",
    "ǉ","ǌ","ǌ","ǎ","ǐ","ǒ","ǔ","ǖ","ǘ","ǚ","ǜ","ǟ","ǡ","ǣ","ǥ","ǧ","ǩ","ǫ","ǭ","ǯ","ǳ","ǳ","ǵ",
    "ƕ","ƿ","ǹ","ǻ","ǽ","ǿ","U+0201","U+0203","U+0205","U+0207","U+0209","U+020B","U+020D",
    "U+020F","U+0211","U+0213","U+0215","U+0217","U+0219","U+021B","U+021D","U+021F","ƞ","U+0223",
    "U+0225","U+0227","U+0229","U+022B","U+022D","U+022F","U+0231","U+0233","U+2C65","U+023C","ƚ",
    "U+2C66","U+0242","ƀ","ʉ","ʌ","U+0247","U+0249","U+024B","U+024D","U+024F","U+0371","U+0373",
    "U+0377","ϳ","ά","έ","ή","ί","ό","ύ","ώ","α","β","γ","δ","ε","ζ","η","θ","ι","κ","λ","μ","ν",
    "ξ","ο","π","ρ","σ","τ","υ","φ","χ","ψ","ω","ϊ","ϋ","ϗ","ϙ","ϛ","ϝ","ϟ","ϡ","ϣ","ϥ","ϧ","ϩ",
    "ϫ","ϭ","ϯ","θ","ϸ","ϲ","ϻ","U+037B","U+037C","U+037D","U+0450","U+0451","U+0452","U+0453",
    "U+0454","U+0455","U+0456","U+0457","U+0458","U+0459","U+045A","U+045B","U+045C","U+045D",
    "U+045E","U+045F","U+0430","U+0431","U+0432","U+0433","U+0434","U+0435","U+0436","U+0437",
    "U+0438","U+0439","U+043A","U+043B","U+043C","U+043D","U+043E","U+043F","U+0440","U+0441",
    "U+0442","U+0443","U+0444","U+0445","U+0446","U+0447","U+0448","U+0449","U+044A","U+044B",
    "U+044C","U+044D","U+044E","U+044F","U+0461","U+0463","U+0465","U+0467","U+0469","U+046B",
    "U+046D","U+046F","U+0471","U+0473","U+0475","U+0477","U+0479","U+047B","U+047D","U+047F","ҁ",
    "ҋ","ҍ","ҏ","ґ","ғ","ҕ","җ","ҙ","қ","ҝ","ҟ","ҡ","ң","ҥ","ҧ","ҩ","ҫ","ҭ","ү","ұ","ҳ","ҵ","ҷ",
    "ҹ","һ","ҽ","ҿ","ӏ","ӂ","ӄ","ӆ","ӈ","ӊ","ӌ","ӎ","ӑ","ӓ","ӕ","ӗ","ә","ӛ","ӝ","ӟ","ӡ","ӣ","ӥ",
    "ӧ","ө","ӫ","ӭ","ӯ","ӱ","ӳ","ӵ","ӷ","ӹ","ӻ","ӽ","ӿ","U+0501","U+0503","U+0505","U+0507",
    "U+0509","U+050B","U+050D","U+050F","U+0511","U+0513","U+0515","U+0517","U+0519","U+051B",
    "U+051D","U+051F","U+0521","U+0523","U+0525","U+0527","U+0529","U+052B","U+052D","U+052F",
    "U+0561","U+0562","U+0563","U+0564","U+0565","U+0566","U+0567","U+0568","U+0569","U+056A",
    "U+056B","U+056C","U+056D","U+056E","U+056F","U+0570","U+0571","U+0572","U+0573","U+0574",
    "U+0575","U+0576","U+0577","U+0578","U+0579","U+057A","U+057B","U+057C","U+057D","U+057E",
    "U+057F","ր","ց","ւ","փ","ք","օ","ֆ","U+2D00","U+2D01","U+2D02","U+2D03","U+2D04","U+2D05",
    "U+2D06","U+2D07","U+2D08","U+2D09","U+2D0A","U+2D0B","U+2D0C","U+2D0D","U+2D0E","U+2D0F",
    "U+2D10","U+2D11","U+2D12","U+2D13","U+2D14","U+2D15","U+2D16","U+2D17","U+2D18","U+2D19",
    "U+2D1A","U+2D1B","U+2D1C","U+2D1D","U+2D1E","U+2D1F","U+2D20","U+2D21","U+2D22","U+2D23",
    "U+2D24","U+2D25","U+2D27","U+2D2D","U+AB70","U+AB71","U+AB72","U+AB73","U+AB74","U+AB75",
    "U+AB76","U+AB77","U+AB78","U+AB79","U+AB7A","U+AB7B","U+AB7C","U+AB7D","U+AB7E","U+AB7F","ꮀ",
    "ꮁ","ꮂ","ꮃ","ꮄ","ꮅ","ꮆ","ꮇ","ꮈ","ꮉ","ꮊ","ꮋ","ꮌ","ꮍ","ꮎ","ꮏ","ꮐ","ꮑ","ꮒ","ꮓ","ꮔ","ꮕ","ꮖ","ꮗ",
    "ꮘ","ꮙ","ꮚ","ꮛ","ꮜ","ꮝ","ꮞ","ꮟ","ꮠ","ꮡ","ꮢ","ꮣ","ꮤ","ꮥ","ꮦ","ꮧ","ꮨ","ꮩ","ꮪ","ꮫ","ꮬ","ꮭ","ꮮ",
    "ꮯ","ꮰ","ꮱ","ꮲ","ꮳ","ꮴ","ꮵ","ꮶ","ꮷ","ꮸ","ꮹ","ꮺ","ꮻ","ꮼ","ꮽ","ꮾ","ꮿ","ᏸ","ᏹ","ᏺ","ᏻ","ᏼ","ᏽ",
    "ᲊ","ა","ბ","გ","დ","ე","ვ","ზ","თ","ი","კ","ლ","მ","ნ","ო","პ","ჟ","რ","ს","ტ","უ","ფ","ქ",
    "ღ","ყ","შ","ჩ","ც","ძ","წ","ჭ","ხ","ჯ","ჰ","ჱ","ჲ","ჳ","ჴ","ჵ","ჶ","ჷ","ჸ","ჹ","ჺ","ჽ","ჾ",
    "ჿ","U+1E01","U+1E03","U+1E05","U+1E07","U+1E09","U+1E0B","U+1E0D","U+1E0F","U+1E11","U+1E13",
    "U+1E15","U+1E17","U+1E19","U+1E1B","U+1E1D","U+1E1F","U+1E21","U+1E23","U+1E25","U+1E27",
    "U+1E29","U+1E2B","U+1E2D","U+1E2F","U+1E31","U+1E33","U+1E35","U+1E37","U+1E39","U+1E3B",
    "U+1E3D","U+1E3F","U+1E41","U+1E43","U+1E45","U+1E47","U+1E49","U+1E4B","U+1E4D","U+1E4F",
    "U+1E51","U+1E53","U+1E55","U+1E57","U+1E59","U+1E5B","U+1E5D","U+1E5F","U+1E61","U+1E63",
    "U+1E65","U+1E67","U+1E69","U+1E6B","U+1E6D","U+1E6F","U+1E71","U+1E73","U+1E75","U+1E77",
    "U+1E79","U+1E7B","U+1E7D","U+1E7F","ẁ","ẃ","ẅ","ẇ","ẉ","ẋ","ẍ","ẏ","ẑ","ẓ","ẕ","ß","ạ","ả",
    "ấ","ầ","ẩ","ẫ","ậ","ắ","ằ","ẳ","ẵ","ặ","ẹ","ẻ","ẽ","ế","ề","ể","ễ","ệ","ỉ","ị","ọ","ỏ","ố",
    "ồ","ổ","ỗ","ộ","ớ","ờ","ở","ỡ","ợ","ụ","ủ","ứ","ừ","ử","ữ","ự","ỳ","ỵ","ỷ","ỹ","ỻ","ỽ","ỿ",
    "U+1F00","U+1F01","U+1F02","U+1F03","U+1F04","U+1F05","U+1F06","U+1F07","U+1F10","U+1F11",
    "U+1F12","U+1F13","U+1F14","U+1F15","U+1F20","U+1F21","U+1F22","U+1F23","U+1F24","U+1F25",
    "U+1F26","U+1F27","U+1F30","U+1F31","U+1F32","U+1F33","U+1F34","U+1F35","U+1F36","U+1F37",
    "U+1F40","U+1F41","U+1F42","U+1F43","U+1F44","U+1F45","U+1F51","U+1F53","U+1F55","U+1F57",
    "U+1F60","U+1F61","U+1F62","U+1F63","U+1F64","U+1F65","U+1F66","U+1F67","ᾀ","ᾁ","ᾂ","ᾃ","ᾄ",
    "ᾅ","ᾆ","ᾇ","ᾐ","ᾑ","ᾒ","ᾓ","ᾔ","ᾕ","ᾖ","ᾗ","ᾠ","ᾡ","ᾢ","ᾣ","ᾤ","ᾥ","ᾦ","ᾧ","ᾰ","ᾱ","U+1F70",
    "U+1F71","ᾳ","U+1F72","U+1F73","U+1F74","U+1F75","ῃ","ῐ","ῑ","U+1F76","U+1F77","ῠ","ῡ",
    "U+1F7A","U+1F7B","ῥ","U+1F78","U+1F79","U+1F7C","U+1F7D","ῳ","ω","k","å","U+214E","U+2170",
    "U+2171","U+2172","U+2173","U+2174","U+2175","U+2176","U+2177","U+2178","U+2179","U+217A",
    "U+217B","U+217C","U+217D","U+217E","U+217F","ↄ","ⓐ","ⓑ","ⓒ","ⓓ","ⓔ","ⓕ","ⓖ","ⓗ","ⓘ","ⓙ","ⓚ",
    "ⓛ","ⓜ","ⓝ","ⓞ","ⓟ","ⓠ","ⓡ","ⓢ","ⓣ","ⓤ","ⓥ","ⓦ","ⓧ","ⓨ","ⓩ","U+2C30","U+2C31","U+2C32",
    "U+2C33","U+2C34","U+2C35","U+2C36","U+2C37","U+2C38","U+2C39","U+2C3A","U+2C3B","U+2C3C",
    "U+2C3D","U+2C3E","U+2C3F","U+2C40","U+2C41","U+2C42","U+2C43","U+2C44","U+2C45","U+2C46",
    "U+2C47","U+2C48","U+2C49","U+2C4A","U+2C4B","U+2C4C","U+2C4D","U+2C4E","U+2C4F","U+2C50",
    "U+2C51","U+2C52","U+2C53","U+2C54","U+2C55","U+2C56","U+2C57","U+2C58","U+2C59","U+2C5A",
    "U+2C5B","U+2C5C","U+2C5D","U+2C5E","U+2C5F","U+2C61","U+026B","U+1D7D","U+027D","U+2C68",
    "U+2C6A","U+2C6C","U+0251","U+0271","U+0250","U+0252","U+2C73","U+2C76","U+023F","U+0240","ⲁ",
    "ⲃ","ⲅ","ⲇ","ⲉ","ⲋ","ⲍ","ⲏ","ⲑ","ⲓ","ⲕ","ⲗ","ⲙ","ⲛ","ⲝ","ⲟ","ⲡ","ⲣ","ⲥ","ⲧ","ⲩ","ⲫ","ⲭ","ⲯ",
    "ⲱ","ⲳ","ⲵ","ⲷ","ⲹ","ⲻ","ⲽ","ⲿ","ⳁ","ⳃ","ⳅ","ⳇ","ⳉ","ⳋ","ⳍ","ⳏ","ⳑ","ⳓ","ⳕ","ⳗ","ⳙ","ⳛ","ⳝ",
    "ⳟ","ⳡ","ⳣ","ⳬ","ⳮ","ⳳ","U+A641","U+A643","U+A645","U+A647","U+A649","U+A64B","U+A64D",
    "U+A64F","U+A651","U+A653","U+A655","U+A657","U+A659","U+A65B","U+A65D","U+A65F","U+A661",
    "U+A663","U+A665","U+A667","U+A669","U+A66B","U+A66D","ꚁ","ꚃ","ꚅ","ꚇ","ꚉ","ꚋ","ꚍ","ꚏ","ꚑ","ꚓ",
    "ꚕ","ꚗ","ꚙ","ꚛ","U+A723","U+A725","U+A727","U+A729","U+A72B","U+A72D","U+A72F","U+A733",
    "U+A735","U+A737","U+A739","U+A73B","U+A73D","U+A73F","U+A741","U+A743","U+A745","U+A747",
    "U+A749","U+A74B","U+A74D","U+A74F","U+A751","U+A753","U+A755","U+A757","U+A759","U+A75B",
    "U+A75D","U+A75F","U+A761","U+A763","U+A765","U+A767","U+A769","U+A76B","U+A76D","U+A76F",
    "U+A77A","U+A77C","U+1D79","U+A77F","ꞁ","ꞃ","ꞅ","ꞇ","ꞌ","U+0265","ꞑ","ꞓ","ꞗ","ꞙ","ꞛ","ꞝ","ꞟ",
    "ꞡ","ꞣ","ꞥ","ꞧ","ꞩ","U+0266","U+025C","U+0261","U+026C","U+026A","ʞ","ʇ","ʝ","U+AB53","ꞵ","ꞷ",
    "ꞹ","ꞻ","ꞽ","ꞿ","ꟁ","ꟃ","ꞔ","ʂ","ᶎ","ꟈ","ꟊ","U+0264","ꟍ","꟏","ꟑ","ꟓ","ꟕ","ꟗ","ꟙ","ꟛ","ƛ","ꟶ",
    "U+FF41","U+FF42","U+FF43","U+FF44","U+FF45","U+FF46","U+FF47","U+FF48","U+FF49","U+FF4A",
    "U+FF4B","U+FF4C","U+FF4D","U+FF4E","U+FF4F","U+FF50","U+FF51","U+FF52","U+FF53","U+FF54",
    "U+FF55","U+FF56","U+FF57","U+FF58","U+FF59","U+FF5A" >>

LowerMap ==
  [c \in {UpperChars[i] : i \in 1..Len(UpperChars)} |->
     LowerChars[CHOOSE i \in 1..Len(UpperChars) : UpperChars[i] = c]]

\* the lower case of one character of U+0000..U+FFFF: every other character
\* is its own
LowerChar(c) == IF c \in DOMAIN LowerMap THEN LowerMap[c] ELSE c

\* the code points from U+10000 that have a lower case: the first and the
\* last of a range, and the distance to the lower case
LowerPairRanges ==
  <<
    <<66560,66599,40>>,<<66736,66771,40>>,<<66928,66938,39>>,<<66940,66954,39>>,
    <<66956,66962,39>>,<<66964,66965,39>>,<<68736,68786,64>>,<<68944,68965,32>>,
    <<71840,71871,32>>,<<93760,93791,32>>,<<93856,93880,27>>,<<125184,125217,34>> >>

LowerPair(cp) ==
  IF \E i \in 1..Len(LowerPairRanges) :
       cp >= LowerPairRanges[i][1] /\ cp <= LowerPairRanges[i][2]
  THEN cp + LowerPairRanges[CHOOSE i \in 1..Len(LowerPairRanges) :
                              cp >= LowerPairRanges[i][1] /\ cp <= LowerPairRanges[i][2]][3]
  ELSE cp

\* the cased letters that are not case-ignorable: the letters above, and
\* the other cased characters of U+0000..U+FFFF
OtherCased ==
  {
    "ª","µ","º","U+0130","U+0131","U+0138","U+0149","U+017F","ƍ","ƪ","ƫ","ƺ","ƾ","ǰ","U+0221",
    "U+0234","U+0235","U+0236","U+0237","U+0238","U+0239","U+0255","U+0258","U+025A","U+025D",
    "U+025E","U+025F","U+0262","U+0267","U+026D","U+026E","U+0270","U+0273","U+0274","U+0276",
    "U+0277","U+0278","U+0279","U+027A","U+027B","U+027C","U+027E","U+027F","ʁ","ʄ","ʅ","ʆ","ʍ",
    "ʎ","ʏ","ʐ","ʑ","ʓ","ʖ","ʗ","ʘ","ʙ","ʚ","ʛ","ʜ","ʟ","ʠ","ʡ","ʢ","ʣ","ʤ","ʥ","ʦ","ʧ","ʨ","ʩ",
    "ʪ","ʫ","ʬ","ʭ","ʮ","ʯ","ΐ","ΰ","ς","ϐ","ϑ","ϒ","ϓ","ϔ","ϕ","ϖ","ϰ","ϱ","ϵ","ϼ","U+0560","և",
    "ֈ","ᲀ","ᲁ","ᲂ","ᲃ","ᲄ","ᲅ","ᲆ","ᲇ","ᲈ","U+1D00","U+1D01","U+1D02","U+1D03","U+1D04","U+1D05",
    "U+1D06","U+1D07","U+1D08","U+1D09","U+1D0A","U+1D0B","U+1D0C","U+1D0D","U+1D0E","U+1D0F",
    "U+1D10","U+1D11","U+1D12","U+1D13","U+1D14","U+1D15","U+1D16","U+1D17","U+1D18","U+1D19",
    "U+1D1A","U+1D1B","U+1D1C","U+1D1D","U+1D1E","U+1D1F","U+1D20","U+1D21","U+1D22","U+1D23",
    "U+1D24","U+1D25","U+1D26","U+1D27","U+1D28","U+1D29","U+1D2A","U+1D2B","U+1D6B","U+1D6C",
    "U+1D6D","U+1D6E","U+1D6F","U+1D70","U+1D71","U+1D72","U+1D73","U+1D74","U+1D75","U+1D76",
    "U+1D77","U+1D7A","U+1D7B","U+1D7C","U+1D7E","U+1D7F","ᶀ","ᶁ","ᶂ","ᶃ","ᶄ","ᶅ","ᶆ","ᶇ","ᶈ","ᶉ",
    "ᶊ","ᶋ","ᶌ","ᶍ","ᶏ","ᶐ","ᶑ","ᶒ","ᶓ","ᶔ","ᶕ","ᶖ","ᶗ","ᶘ","ᶙ","ᶚ","ẖ","ẗ","ẘ","ẙ","ẚ","ẛ","ẜ",
    "ẝ","ẟ","U+1F50","U+1F52","U+1F54","U+1F56","ᾲ","ᾴ","ᾶ","ᾷ","ι","ῂ","ῄ","ῆ","ῇ","ῒ","ΐ","ῖ",
    "ῗ","ῢ","ΰ","ῤ","ῦ","ῧ","ῲ","ῴ","ῶ","ῷ","U+2102","U+2107","U+210A","U+210B","U+210C","U+210D",
    "U+210E","U+210F","U+2110","U+2111","U+2112","U+2113","U+2115","U+2119","U+211A","U+211B",
    "U+211C","U+211D","U+2124","U+2128","U+212C","U+212D","U+212F","U+2130","U+2131","U+2133",
    "U+2134","U+2139","U+213C","U+213D","U+213E","U+213F","U+2145","U+2146","U+2147","U+2148",
    "U+2149","U+2C71","U+2C74","U+2C77","U+2C78","U+2C79","U+2C7A","U+2C7B","ⳤ","U+A730","U+A731",
    "U+A771","U+A772","U+A773","U+A774","U+A775","U+A776","U+A777","U+A778","ꞎ","ꞕ","ꞯ","ꟺ",
    "U+AB30","U+AB31","U+AB32","U+AB33","U+AB34","U+AB35","U+AB36","U+AB37","U+AB38","U+AB39",
    "U+AB3A","U+AB3B","U+AB3C","U+AB3D","U+AB3E","U+AB3F","U+AB40","U+AB41","U+AB42","U+AB43",
    "U+AB44","U+AB45","U+AB46","U+AB47","U+AB48","U+AB49","U+AB4A","U+AB4B","U+AB4C","U+AB4D",
    "U+AB4E","U+AB4F","U+AB50","U+AB51","U+AB52","U+AB54","U+AB55","U+AB56","U+AB57","U+AB58",
    "U+AB59","U+AB5A","U+AB60","U+AB61","U+AB62","U+AB63","U+AB64","U+AB65","U+AB66","U+AB67",
    "U+AB68","U+FB00","U+FB01","U+FB02","U+FB03","U+FB04","U+FB05","U+FB06","U+FB13","U+FB14",
    "U+FB15","U+FB16","U+FB17" }

CasedChars ==
  {UpperChars[i] : i \in 1..Len(UpperChars)} \cup {LowerChars[i] : i \in 1..Len(LowerChars)}
    \cup OtherCased

\* the case-ignorable characters of U+0000..U+FFFF
CaseIgnorableChars ==
  {
    "'",".",":","^","U+0060","¨","­","¯","´","·","¸","ʰ","ʱ","ʲ","ʳ","ʴ","ʵ","ʶ","ʷ","ʸ","ʹ","ʺ",
    "ʻ","ʼ","ʽ","ʾ","ʿ","ˀ","ˁ","˂","˃","˄","˅","ˆ","ˇ","ˈ","ˉ","ˊ","ˋ","ˌ","ˍ","ˎ","ˏ","ː","ˑ",
    "˒","˓","˔","˕","˖","˗","˘","˙","˚","˛","˜","˝","˞","˟","ˠ","ˡ","ˢ","ˣ","ˤ","˥","˦","˧","˨",
    "˩","˪","˫","ˬ","˭","ˮ","˯","˰","˱","˲","˳","˴","˵","˶","˷","˸","˹","˺","˻","˼","˽","˾","˿",
    "U+0300","U+0301","U+0302","U+0303","U+0304","U+0305","U+0306","U+0307","U+0308","U+0309",
    "U+030A","U+030B","U+030C","U+030D","U+030E","U+030F","U+0310","U+0311","U+0312","U+0313",
    "U+0314","U+0315","U+0316","U+0317","U+0318","U+0319","U+031A","U+031B","U+031C","U+031D",
    "U+031E","U+031F","U+0320","U+0321","U+0322","U+0323","U+0324","U+0325","U+0326","U+0327",
    "U+0328","U+0329","U+032A","U+032B","U+032C","U+032D","U+032E","U+032F","U+0330","U+0331",
    "U+0332","U+0333","U+0334","U+0335","U+0336","U+0337","U+0338","U+0339","U+033A","U+033B",
    "U+033C","U+033D","U+033E","U+033F","U+0340","U+0341","U+0342","U+0343","U+0344","U+0345",
    "U+0346","U+0347","U+0348","U+0349","U+034A","U+034B","U+034C","U+034D","U+034E","U+034F",
    "U+0350","U+0351","U+0352","U+0353","U+0354","U+0355","U+0356","U+0357","U+0358","U+0359",
    "U+035A","U+035B","U+035C","U+035D","U+035E","U+035F","U+0360","U+0361","U+0362","U+0363",
    "U+0364","U+0365","U+0366","U+0367","U+0368","U+0369","U+036A","U+036B","U+036C","U+036D",
    "U+036E","U+036F","U+0374","U+0375","U+037A","΄","΅","·","҃","҄","҅","҆","҇","҈","҉","U+0559",
    "U+055F","֑","֒","֓","֔","֕","֖","֗","֘","֙","֚","֛","֜","֝","֞","֟","֠","֡","֢","֣","֤","֥",
    "֦","֧","֨","֩","֪","֫","֬","֭","֮","֯","ְ","ֱ","ֲ","ֳ","ִ","ֵ","ֶ","ַ","ָ","ֹ","ֺ","ֻ","ּ",
    "ֽ","ֿ","ׁ","ׂ","ׄ","ׅ","ׇ","״","U+0600","U+0601","U+0602","U+0603","U+0604","U+0605",
    "U+0610","U+0611","U+0612","U+0613","U+0614","U+0615","U+0616","U+0617","U+0618","U+0619",
    "U+061A","U+061C","U+0640","U+064B","U+064C","U+064D","U+064E","U+064F","U+0650","U+0651",
    "U+0652","U+0653","U+0654","U+0655","U+0656","U+0657","U+0658","U+0659","U+065A","U+065B",
    "U+065C","U+065D","U+065E","U+065F","U+0670","ۖ","ۗ","ۘ","ۙ","ۚ","ۛ","ۜ","۝","۟","۠","ۡ","ۢ",
    "ۣ","ۤ","ۥ","ۦ","ۧ","ۨ","۪","۫","۬","ۭ","U+070F","U+0711","U+0730","U+0731","U+0732","U+0733",
    "U+0734","U+0735","U+0736","U+0737","U+0738","U+0739","U+073A","U+073B","U+073C","U+073D",
    "U+073E","U+073F","U+0740","U+0741","U+0742","U+0743","U+0744","U+0745","U+0746","U+0747",
    "U+0748","U+0749","U+074A","ަ","ާ","ި","ީ","ު","ޫ","ެ","ޭ","ޮ","ޯ","ް","߫","߬","߭","߮","߯",
    "߰","߱","߲","߳","ߴ","ߵ","ߺ","߽","U+0816","U+0817","U+0818","U+0819","U+081A","U+081B",
    "U+081C","U+081D","U+081E","U+081F","U+0820","U+0821","U+0822","U+0823","U+0824","U+0825",
    "U+0826","U+0827","U+0828","U+0829","U+082A","U+082B","U+082C","U+082D","U+0859","U+085A",
    "U+085B","࢈","࢐","࢑","ࢗ","࢘","࢙","࢚","࢛","࢜","࢝","࢞","࢟","ࣉ","࣊","࣋","࣌","࣍","࣎","࣏","࣐","࣑",
    "࣒","࣓","ࣔ","ࣕ","ࣖ","ࣗ","ࣘ","ࣙ","ࣚ","ࣛ","ࣜ","ࣝ","ࣞ","ࣟ","࣠","࣡","࣢","ࣣ","ࣤ","ࣥ","ࣦ","ࣧ","ࣨ",
    "ࣩ","࣪","࣫","࣬","࣭","࣮","࣯","ࣰ","ࣱ","ࣲ","ࣳ","ࣴ","ࣵ","ࣶ","ࣷ","ࣸ","ࣹ","ࣺ","ࣻ","ࣼ","ࣽ","ࣾ","ࣿ",
    "U+0900","U+0901","U+0902","U+093A","U+093C","U+0941","U+0942","U+0943","U+0944","U+0945",
    "U+0946","U+0947","U+0948","U+094D","U+0951","U+0952","U+0953","U+0954","U+0955","U+0956",
    "U+0957","U+0962","U+0963","U+0971","ঁ","়","ু","ূ","ৃ","ৄ","্","ৢ","ৣ","৾","U+0A01","U+0A02",
    "U+0A3C","U+0A41","U+0A42","U+0A47","U+0A48","U+0A4B","U+0A4C","U+0A4D","U+0A51","U+0A70",
    "U+0A71","U+0A75","ઁ","ં","઼","ુ","ૂ","ૃ","ૄ","ૅ","ે","ૈ","્","ૢ","ૣ","ૺ","ૻ","ૼ","૽","૾","૿",
    "U+0B01","U+0B3C","U+0B3F","U+0B41","U+0B42","U+0B43","U+0B44","U+0B4D","U+0B55","U+0B56",
    "U+0B62","U+0B63","ஂ","ீ","்","U+0C00","U+0C04","U+0C3C","U+0C3E","U+0C3F","U+0C40","U+0C46",
    "U+0C47","U+0C48","U+0C4A","U+0C4B","U+0C4C","U+0C4D","U+0C55","U+0C56","U+0C62","U+0C63","ಁ",
    "಼","ಿ","ೆ","ೌ","್","ೢ","ೣ","U+0D00","U+0D01","U+0D3B","U+0D3C","U+0D41","U+0D42","U+0D43",
    "U+0D44","U+0D4D","U+0D62","U+0D63","ඁ","්","ි","ී","ු","ූ","U+0E31","U+0E34","U+0E35",
    "U+0E36","U+0E37","U+0E38","U+0E39","U+0E3A","U+0E46","U+0E47","U+0E48","U+0E49","U+0E4A",
    "U+0E4B","U+0E4C","U+0E4D","U+0E4E","ັ","ິ","ີ","ຶ","ື","ຸ","ູ","຺","ົ","ຼ","ໆ","່","້","໊",
    "໋","໌","ໍ","໎","U+0F18","U+0F19","U+0F35","U+0F37","U+0F39","U+0F71","U+0F72","U+0F73",
    "U+0F74","U+0F75","U+0F76","U+0F77","U+0F78","U+0F79","U+0F7A","U+0F7B","U+0F7C","U+0F7D",
    "U+0F7E","ྀ","ཱྀ","ྂ","ྃ","྄","྆","྇","ྍ","ྎ","ྏ","ྐ","ྑ","ྒ","ྒྷ","ྔ","ྕ","ྖ","ྗ","ྙ","ྚ","ྛ",
    "ྜ","ྜྷ","ྞ","ྟ","ྠ","ྡ","ྡྷ","ྣ","ྤ","ྥ","ྦ","ྦྷ","ྨ","ྩ","ྪ","ྫ","ྫྷ","ྭ","ྮ","ྯ","ྰ","ྱ","ྲ",
    "ླ","ྴ","ྵ","ྶ","ྷ","ྸ","ྐྵ","ྺ","ྻ","ྼ","࿆","U+102D","U+102E","U+102F","U+1030","U+1032",
    "U+1033","U+1034","U+1035","U+1036","U+1037","U+1039","U+103A","U+103D","U+103E","U+1058",
    "U+1059","U+105E","U+105F","U+1060","U+1071","U+1072","U+1073","U+1074","ႂ","ႅ","ႆ","ႍ","ႝ",
    "ჼ","U+135D","U+135E","U+135F","U+1712","U+1713","U+1714","U+1732","U+1733","U+1752","U+1753",
    "U+1772","U+1773","឴","឵","ិ","ី","ឹ","ឺ","ុ","ូ","ួ","ំ","៉","៊","់","៌","៍","៎","៏","័","៑",
    "្","៓","ៗ","៝","U+180B","U+180C","U+180D","U+180E","U+180F","U+1843","ᢅ","ᢆ","ᢩ","U+1920",
    "U+1921","U+1922","U+1927","U+1928","U+1932","U+1939","U+193A","U+193B","U+1A17","U+1A18",
    "U+1A1B","U+1A56","U+1A58","U+1A59","U+1A5A","U+1A5B","U+1A5C","U+1A5D","U+1A5E","U+1A60",
    "U+1A62","U+1A65","U+1A66","U+1A67","U+1A68","U+1A69","U+1A6A","U+1A6B","U+1A6C","U+1A73",
    "U+1A74","U+1A75","U+1A76","U+1A77","U+1A78","U+1A79","U+1A7A","U+1A7B","U+1A7C","U+1A7F","ᪧ",
    "᪰","᪱","᪲","᪳","᪴","᪵","᪶","᪷","᪸","᪹","᪺","᪻","᪼","᪽","᪾","ᪿ","ᫀ","᫁","᫂","᫃","᫄","᫅","᫆",
    "᫇","᫈","᫉","᫊","᫋","ᫌ","ᫍ","ᫎ","᫏","᫐","᫑","᫒","᫓","᫔","᫕","᫖","᫗","᫘","᫙","᫚","᫛","᫜","᫝",
    "᫠","᫡","᫢","᫣","᫤","᫥","᫦","᫧","᫨","᫩","᫪","᫫","U+1B00","U+1B01","U+1B02","U+1B03","U+1B34",
    "U+1B36","U+1B37","U+1B38","U+1B39","U+1B3A","U+1B3C","U+1B42","U+1B6B","U+1B6C","U+1B6D",
    "U+1B6E","U+1B6F","U+1B70","U+1B71","U+1B72","U+1B73","ᮀ","ᮁ","ᮢ","ᮣ","ᮤ","ᮥ","ᮨ","ᮩ","᮫","ᮬ",
    "ᮭ","᯦","ᯨ","ᯩ","ᯭ","ᯯ","ᯰ","ᯱ","U+1C2C","U+1C2D","U+1C2E","U+1C2F","U+1C30","U+1C31",
    "U+1C32","U+1C33","U+1C36","U+1C37","U+1C78","U+1C79","U+1C7A","U+1C7B","U+1C7C","U+1C7D","᳐",
    "᳑","᳒","᳔","᳕","᳖","᳗","᳘","᳙","᳚","᳛","᳜","᳝","᳞","᳟","᳠","᳢","᳣","᳤","᳥","᳦","᳧","᳨","᳭",
    "᳴","᳸","᳹","U+1D2C","U+1D2D","U+1D2E","U+1D2F","U+1D30","U+1D31","U+1D32","U+1D33","U+1D34",
    "U+1D35","U+1D36","U+1D37","U+1D38","U+1D39","U+1D3A","U+1D3B","U+1D3C","U+1D3D","U+1D3E",
    "U+1D3F","U+1D40","U+1D41","U+1D42","U+1D43","U+1D44","U+1D45","U+1D46","U+1D47","U+1D48",
    "U+1D49","U+1D4A","U+1D4B","U+1D4C","U+1D4D","U+1D4E","U+1D4F","U+1D50","U+1D51","U+1D52",
    "U+1D53","U+1D54","U+1D55","U+1D56","U+1D57","U+1D58","U+1D59","U+1D5A","U+1D5B","U+1D5C",
    "U+1D5D","U+1D5E","U+1D5F","U+1D60","U+1D61","U+1D62","U+1D63","U+1D64","U+1D65","U+1D66",
    "U+1D67","U+1D68","U+1D69","U+1D6A","U+1D78","ᶛ","ᶜ","ᶝ","ᶞ","ᶟ","ᶠ","ᶡ","ᶢ","ᶣ","ᶤ","ᶥ","ᶦ",
    "ᶧ","ᶨ","ᶩ","ᶪ","ᶫ","ᶬ","ᶭ","ᶮ","ᶯ","ᶰ","ᶱ","ᶲ","ᶳ","ᶴ","ᶵ","ᶶ","ᶷ","ᶸ","ᶹ","ᶺ","ᶻ","ᶼ","ᶽ",
    "ᶾ","ᶿ","᷀","᷁","᷂","᷃","᷄","᷅","᷆","᷇","᷈","᷉","᷊","᷋","᷌","᷍","᷎","᷏","᷐","᷑","᷒","ᷓ","ᷔ",
    "ᷕ","ᷖ","ᷗ","ᷘ","ᷙ","ᷚ","ᷛ","ᷜ","ᷝ","ᷞ","ᷟ","ᷠ","ᷡ","ᷢ","ᷣ","ᷤ","ᷥ","ᷦ","ᷧ","ᷨ","ᷩ","ᷪ","ᷫ",
    "ᷬ","ᷭ","ᷮ","ᷯ","ᷰ","ᷱ","ᷲ","ᷳ","ᷴ","᷵","᷶","᷷","᷸","᷹","᷺","᷻","᷼","᷽","᷾","᷿","᾽","᾿","῀",
    "῁","῍","῎","῏","῝","῞","῟","῭","΅","`","´","῾","U+200B","U+200C","U+200D","U+200E","U+200F",
    "U+2018","U+2019","U+2024","U+2027","U+202A","U+202B","U+202C","U+202D","U+202E","U+2060",
    "U+2061","U+2062","U+2063","U+2064","U+2066","U+2067","U+2068","U+2069","U+206A","U+206B",
    "U+206C","U+206D","U+206E","U+206F","U+2071","U+207F","ₐ","ₑ","ₒ","ₓ","ₔ","ₕ","ₖ","ₗ","ₘ","ₙ",
    "ₚ","ₛ","ₜ","⃐","⃑","⃒","⃓","⃔","⃕","⃖","⃗","⃘","⃙","⃚","⃛","⃜","⃝","⃞","⃟","⃠","⃡","⃢","⃣",
    "⃤","⃥","⃦","⃧","⃨","⃩","⃪","⃫","⃬","⃭","⃮","⃯","⃰","U+2C7C","U+2C7D","⳯","⳰","⳱","U+2D6F",
    "U+2D7F","ⷠ","ⷡ","ⷢ","ⷣ","ⷤ","ⷥ","ⷦ","ⷧ","ⷨ","ⷩ","ⷪ","ⷫ","ⷬ","ⷭ","ⷮ","ⷯ","ⷰ","ⷱ","ⷲ","ⷳ","ⷴ",
    "ⷵ","ⷶ","ⷷ","ⷸ","ⷹ","ⷺ","ⷻ","ⷼ","ⷽ","ⷾ","ⷿ","U+2E2F","U+3005","U+302A","U+302B","U+302C",
    "U+302D","U+3031","U+3032","U+3033","U+3034","U+3035","U+303B","゙","゚","゛","゜","ゝ","ゞ","ー",
    "ヽ","ヾ","U+A015","ꓸ","ꓹ","ꓺ","ꓻ","ꓼ","ꓽ","U+A60C","U+A66F","U+A670","U+A671","U+A672",
    "U+A674","U+A675","U+A676","U+A677","U+A678","U+A679","U+A67A","U+A67B","U+A67C","U+A67D",
    "U+A67F","ꚜ","ꚝ","ꚞ","ꚟ","꛰","꛱","U+A700","U+A701","U+A702","U+A703","U+A704","U+A705",
    "U+A706","U+A707","U+A708","U+A709","U+A70A","U+A70B","U+A70C","U+A70D","U+A70E","U+A70F",
    "U+A710","U+A711","U+A712","U+A713","U+A714","U+A715","U+A716","U+A717","U+A718","U+A719",
    "U+A71A","U+A71B","U+A71C","U+A71D","U+A71E","U+A71F","U+A720","U+A721","U+A770","ꞈ","꞉","꞊",
    "꟱","ꟲ","ꟳ","ꟴ","ꟸ","ꟹ","U+A802","U+A806","U+A80B","U+A825","U+A826","U+A82C","꣄","ꣅ","꣠","꣡",
    "꣢","꣣","꣤","꣥","꣦","꣧","꣨","꣩","꣪","꣫","꣬","꣭","꣮","꣯","꣰","꣱","ꣿ","U+A926","U+A927",
    "U+A928","U+A929","U+A92A","U+A92B","U+A92C","U+A92D","U+A947","U+A948","U+A949","U+A94A",
    "U+A94B","U+A94C","U+A94D","U+A94E","U+A94F","U+A950","U+A951","ꦀ","ꦁ","ꦂ","꦳","ꦶ","ꦷ","ꦸ",
    "ꦹ","ꦼ","ꦽ","ꧏ","ꧥ","ꧦ","U+AA29","U+AA2A","U+AA2B","U+AA2C","U+AA2D","U+AA2E","U+AA31",
    "U+AA32","U+AA35","U+AA36","U+AA43","U+AA4C","U+AA70","U+AA7C","ꪰ","ꪲ","ꪳ","ꪴ","ꪷ","ꪸ","ꪾ",
    "꪿","꫁","ꫝ","ꫬ","ꫭ","ꫳ","ꫴ","꫶","U+AB5B","U+AB5C","U+AB5D","U+AB5E","U+AB5F","U+AB69",
    "U+AB6A","U+AB6B","ꯥ","ꯨ","꯭","U+FB1E","﮲","﮳","﮴","﮵","﮶","﮷","﮸","﮹","﮺","﮻","﮼","﮽","﮾",
    "﮿","﯀","﯁","﯂","U+FE00","U+FE01","U+FE02","U+FE03","U+FE04","U+FE05","U+FE06","U+FE07",
    "U+FE08","U+FE09","U+FE0A","U+FE0B","U+FE0C","U+FE0D","U+FE0E","U+FE0F","U+FE13","U+FE20",
    "U+FE21","U+FE22","U+FE23","U+FE24","U+FE25","U+FE26","U+FE27","U+FE28","U+FE29","U+FE2A",
    "U+FE2B","U+FE2C","U+FE2D","U+FE2E","U+FE2F","U+FE52","U+FE55","﻿","U+FF07","U+FF0E","U+FF1A",
    "U+FF3E","U+FF40","U+FF70","ﾞ","ﾟ","￣","￹","￺","￻" }

\* the ranges of the cased and of the case-ignorable code points from U+10000
CasedRanges ==
  <<
    <<66560,66639>>,<<66736,66771>>,<<66776,66811>>,<<66928,66938>>,<<66940,66954>>,
    <<66956,66962>>,<<66964,66965>>,<<66967,66977>>,<<66979,66993>>,<<66995,67001>>,
    <<67003,67004>>,<<68736,68786>>,<<68800,68850>>,<<68944,68965>>,<<68976,68997>>,
    <<71840,71903>>,<<93760,93823>>,<<93856,93880>>,<<93883,93907>>,<<119808,119892>>,
    <<119894,119964>>,<<119966,119967>>,<<119970,119970>>,<<119973,119974>>,<<119977,119980>>,
    <<119982,119993>>,<<119995,119995>>,<<119997,120003>>,<<120005,120069>>,<<120071,120074>>,
    <<120077,120084>>,<<120086,120092>>,<<120094,120121>>,<<120123,120126>>,<<120128,120132>>,
    <<120134,120134>>,<<120138,120144>>,<<120146,120485>>,<<120488,120512>>,<<120514,120538>>,
    <<120540,120570>>,<<120572,120596>>,<<120598,120628>>,<<120630,120654>>,<<120656,120686>>,
    <<120688,120712>>,<<120714,120744>>,<<120746,120770>>,<<120772,120779>>,<<122624,122633>>,
    <<122635,122654>>,<<122661,122666>>,<<125184,125251>>,<<127280,127305>>,<<127312,127337>>,
    <<127344,127369>> >>

CaseIgnorableRanges ==
  <<
    <<66045,66045>>,<<66272,66272>>,<<66422,66426>>,<<67456,67461>>,<<67463,67504>>,
    <<67506,67514>>,<<68097,68099>>,<<68101,68102>>,<<68108,68111>>,<<68152,68154>>,
    <<68159,68159>>,<<68325,68326>>,<<68900,68903>>,<<68942,68942>>,<<68969,68973>>,
    <<68975,68975>>,<<69291,69292>>,<<69317,69317>>,<<69370,69375>>,<<69446,69456>>,
    <<69506,69509>>,<<69633,69633>>,<<69688,69702>>,<<69744,69744>>,<<69747,69748>>,
    <<69759,69761>>,<<69811,69814>>,<<69817,69818>>,<<69821,69821>>,<<69826,69826>>,
    <<69837,69837>>,<<69888,69890>>,<<69927,69931>>,<<69933,69940>>,<<70003,70003>>,
    <<70016,70017>>,<<70070,70078>>,<<70089,70092>>,<<70095,70095>>,<<70191,70193>>,
    <<70196,70196>>,<<70198,70199>>,<<70206,70206>>,<<70209,70209>>,<<70367,70367>>,
    <<70371,70378>>,<<70400,70401>>,<<70459,70460>>,<<70464,70464>>,<<70502,70508>>,
    <<70512,70516>>,<<70587,70592>>,<<70606,70606>>,<<70608,70608>>,<<70610,70610>>,
    <<70625,70626>>,<<70712,70719>>,<<70722,70724>>,<<70726,70726>>,<<70750,70750>>,
    <<70835,70840>>,<<70842,70842>>,<<70847,70848>>,<<70850,70851>>,<<71090,71093>>,
    <<71100,71101>>,<<71103,71104>>,<<71132,71133>>,<<71219,71226>>,<<71229,71229>>,
    <<71231,71232>>,<<71339,71339>>,<<71341,71341>>,<<71344,71349>>,<<71351,71351>>,
    <<71453,71453>>,<<71455,71455>>,<<71458,71461>>,<<71463,71467>>,<<71727,71735>>,
    <<71737,71738>>,<<71995,71996>>,<<71998,71998>>,<<72003,72003>>,<<72148,72151>>,
    <<72154,72155>>,<<72160,72160>>,<<72193,72202>>,<<72243,72248>>,<<72251,72254>>,
    <<72263,72263>>,<<72273,72278>>,<<72281,72283>>,<<72330,72342>>,<<72344,72345>>,
    <<72544,72544>>,<<72546,72548>>,<<72550,72550>>,<<72752,72758>>,<<72760,72765>>,
    <<72767,72767>>,<<72850,72871>>,<<72874,72880>>,<<72882,72883>>,<<72885,72886>>,
    <<73009,73014>>,<<73018,73018>>,<<73020,73021>>,<<73023,73029>>,<<73031,73031>>,
    <<73104,73105>>,<<73109,73109>>,<<73111,73111>>,<<73177,73177>>,<<73459,73460>>,
    <<73472,73473>>,<<73526,73530>>,<<73536,73536>>,<<73538,73538>>,<<73562,73562>>,
    <<78896,78912>>,<<78919,78933>>,<<90398,90409>>,<<90413,90415>>,<<92912,92916>>,
    <<92976,92982>>,<<92992,92995>>,<<93504,93506>>,<<93547,93548>>,<<94031,94031>>,
    <<94095,94111>>,<<94176,94177>>,<<94179,94180>>,<<94194,94195>>,<<110576,110579>>,
    <<110581,110587>>,<<110589,110590>>,<<113821,113822>>,<<113824,113827>>,<<118528,118573>>,
    <<118576,118598>>,<<119143,119145>>,<<119155,119170>>,<<119173,119179>>,<<119210,119213>>,
    <<119362,119364>>,<<121344,121398>>,<<121403,121452>>,<<121461,121461>>,<<121476,121476>>,
    <<121499,121503>>,<<121505,121519>>,<<122880,122886>>,<<122888,122904>>,<<122907,122913>>,
    <<122915,122916>>,<<122918,122922>>,<<122928,122989>>,<<123023,123023>>,<<123184,123197>>,
    <<123566,123566>>,<<123628,123631>>,<<124139,124143>>,<<124398,124399>>,<<124643,124643>>,
    <<124646,124646>>,<<124654,124655>>,<<124661,124661>>,<<124671,124671>>,<<125136,125142>>,
    <<125252,125259>>,<<127995,127999>>,<<917505,917505>>,<<917536,917631>>,<<917760,917999>> >>

InRanges(cp, ranges) == \E i \in 1..Len(ranges) : cp >= ranges[i][1] /\ cp <= ranges[i][2]

PairCaseType(cp) ==
  IF InRanges(cp, CaseIgnorableRanges) THEN "ignorable"
  ELSE IF InRanges(cp, CasedRanges) THEN "cased" ELSE "none"

\* the case type of the code point that position j of s is in: a cased
\* letter, a case-ignorable character, or none of the two (a character that
\* is both counts as case-ignorable)
CaseType(s, j) ==
  IF IsPairAt(s, j) THEN PairCaseType(PairCode(s, j))
  ELSE IF IsPairAt(s, j - 1) THEN PairCaseType(PairCode(s, j - 1))
  ELSE IF s[j] \in CaseIgnorableChars THEN "ignorable"
  ELSE IF s[j] \in CasedChars THEN "cased" ELSE "none"

\* Final_Sigma: a cased letter comes before position k, with nothing but
\* case-ignorable characters between, and none comes after it in that way
FinalSigma(s, k) ==
  /\ \E j \in 1..(k - 1) :
       CaseType(s, j) = "cased" /\ \A i \in (j + 1)..(k - 1) : CaseType(s, i) = "ignorable"
  /\ ~\E j \in (k + 1)..Len(s) :
        CaseType(s, j) = "cased" /\ \A i \in (k + 1)..(j - 1) : CaseType(s, i) = "ignorable"

\* the lower case of the code point at position k of s: the capital sigma
\* (U+03A3) has two, the capital I with a dot (U+0130) is an i and a dot
\* above, a surrogate pair gives a pair (and nothing at its second place)
LowerAt(s, k) ==
  IF IsPairAt(s, k) THEN PairOf(LowerPair(PairCode(s, k)))
  ELSE IF IsPairAt(s, k - 1) THEN << >>
  ELSE IF s[k] = "Σ" THEN (IF FinalSigma(s, k) THEN <<"ς">> ELSE <<"σ">>)
  ELSE IF s[k] = "U+0130" THEN <<"i", "U+0307">>
  ELSE <<LowerChar(s[k])>>

\* concatenation of a sequence of sequences
RECURSIVE ConcatAll(_)
ConcatAll(ss) ==
  (CHOOSE val \in {
     IF s = << >> THEN << >> ELSE Head(s) \o ConcatAll(Tail(s))
   : s \in {ss} } : TRUE)

\* String.prototype.toLowerCase
toLowerCase(s) ==
  IF \A k \in 1..Len(s) : s[k] \notin {"Σ", "U+0130"} /\ ~IsNamed(s[k])
  THEN [k \in 1..Len(s) |-> LowerChar(s[k])]
  ELSE ConcatAll([k \in 1..Len(s) |-> LowerAt(s, k)])

\* StrWhiteSpaceChar (WhiteSpace and LineTerminator): TAB, LF, VT, FF, CR,
\* SP, NBSP (U+00A0), U+1680, U+2000..U+200A, U+2028, U+2029, U+202F, U+205F,
\* U+3000 and U+FEFF
WhiteSpace ==
  {
    "\t","\n","U+000B","\f","\r"," "," "," ","U+2000","U+2001","U+2002","U+2003","U+2004",
    "U+2005","U+2006","U+2007","U+2008","U+2009","U+200A","U+2028","U+2029","U+202F","U+205F",
    "U+3000","﻿" }

IsSpace(c) == c \in WhiteSpace

\* does p occur in s at (1-based) position k
OccursAt(s, p, k) ==
  /\ k + Len(p) - 1 <= Len(s)
  /\ \A j \in 1..Len(p) : s[k + j - 1] = p[j]

\* String.prototype.startsWith
startsWith(s, p) == OccursAt(s, p, 1)

\* String.prototype.includes
includes(s, p) == \E k \in 1..(Len(s) + 1) : OccursAt(s, p, k)

\* truthiness of a string value: '' is falsy
Truthy(s) == s # Str0

\* index of the first occurrence of character c in s, 0 when there is none
IndexOf(s, c) ==
  IF \E k \in 1..Len(s) : s[k] = c
  THEN CHOOSE k \in 1..Len(s) : s[k] = c /\ \A j \in 1..(k - 1) : s[j] # c
  ELSE 0

\* String.prototype.split with a one-character separator
RECURSIVE split(_, _)
split(s, c) ==
  LET k == IndexOf(s, c)
  IN IF k = 0 THEN <<s>>
     ELSE <<SubSeq(s, 1, k - 1)>> \o split(SubSeq(s, k + 1, Len(s)), c)

\* s.replace(/c/g, ''): every occurrence of c removed
RemoveAll(s, c) == SelectSeq(s, LAMBDA ch : ch # c)

\* s.replace(c, d) with string arguments: the first occurrence only
ReplaceFirst(s, c, d) ==
  LET k == IndexOf(s, c)
  IN IF k = 0 THEN s ELSE [s EXCEPT ![k] = d]


(***************************************************************************)
(* Natural numbers of any size: the sequence of the digits in base 2^15,   *)
(* the lowest first and the highest not 0; the empty sequence is 0.  The   *)
(* operations on the digits lo..hi of a number take the lower half and the *)
(* upper half in turn and hand the carry from one to the other.            *)
(***************************************************************************)
Base == 32768

LimbBits == 15

RECURSIVE Pow2(_)
Pow2(n) == IF n <= 0 THEN 1 ELSE 2 * Pow2(n - 1)

RECURSIVE Pow5(_)
Pow5(n) == IF n <= 0 THEN 1 ELSE 5 * Pow5(n - 1)

\* the natural number of an integer n >= 0
RECURSIVE NatOf(_)
NatOf(n) == IF n = 0 THEN << >> ELSE <<n % Base>> \o NatOf(n \div Base)

\* the integer of a natural number below 2^30
IntOf(a) ==
  IF a = << >> THEN 0 ELSE IF Len(a) = 1 THEN a[1] ELSE a[1] + Base * a[2]

\* digit i of a, 0 above the highest
At(a, i) == IF i <= Len(a) THEN a[i] ELSE 0

Low(a) == At(a, 1)

\* a without the zeros above its highest digit
Trim(a) ==
  IF \A k \in 1..Len(a) : a[k] = 0 THEN << >>
  ELSE SubSeq(a, 1, CHOOSE k \in 1..Len(a) :
                      a[k] # 0 /\ \A j \in (k + 1)..Len(a) : a[j] = 0)

\* the carry and then the digits lo..hi of a + b, c (0 or 1) being the carry
\* into digit lo
RECURSIVE AddDigits(_, _, _, _, _)
AddDigits(a, b, lo, hi, c) ==
  IF lo > hi THEN <<c>>
  ELSE IF lo = hi
  THEN <<(At(a, lo) + At(b, lo) + c) \div Base, (At(a, lo) + At(b, lo) + c) % Base>>
  ELSE (CHOOSE val \in {
          (CHOOSE val \in {
             <<up[1]>> \o Tail(dn) \o Tail(up)
           : up \in {AddDigits(a, b, (lo + hi) \div 2 + 1, hi, dn[1])} } : TRUE)
        : dn \in {AddDigits(a, b, lo, (lo + hi) \div 2, c)} } : TRUE)

\* a + b + c, c <= 1
AddCarry(a, b, c) ==
  (CHOOSE val \in {
     Tail(d) \o (IF d[1] = 0 THEN << >> ELSE <<d[1]>>)
   : d \in {AddDigits(a, b, 1, IF Len(a) > Len(b) THEN Len(a) ELSE Len(b), c)} } : TRUE)

\* the borrow and then the digits lo..hi of a - b, c (0 or 1) being the
\* borrow from digit lo
RECURSIVE SubDigits(_, _, _, _, _)
SubDigits(a, b, lo, hi, c) ==
  IF lo > hi THEN <<c>>
  ELSE IF lo = hi
  THEN <<IF At(a, lo) - At(b, lo) - c < 0 THEN 1 ELSE 0,
         (At(a, lo) - At(b, lo) - c + Base) % Base>>
  ELSE (CHOOSE val \in {
          (CHOOSE val \in {
             <<up[1]>> \o Tail(dn) \o Tail(up)
           : up \in {SubDigits(a, b, (lo + hi) \div 2 + 1, hi, dn[1])} } : TRUE)
        : dn \in {SubDigits(a, b, lo, (lo + hi) \div 2, c)} } : TRUE)

\* a - b for a >= b
SubNat(a, b) == Trim(Tail(SubDigits(a, b, 1, Len(a), 0)))

\* -1, 0 or 1 as a < b, a = b or a > b
CmpNat(a, b) ==
  IF Len(a) # Len(b) THEN (IF Len(a) < Len(b) THEN -1 ELSE 1)
  ELSE IF a = b THEN 0
  ELSE (CHOOSE val \in {
          IF a[k] < b[k] THEN -1 ELSE 1
        : k \in {CHOOSE k \in 1..Len(a) : a[k] # b[k] /\ \A j \in (k + 1)..Len(a) : a[j] = b[j]} } : TRUE)

\* the carry and then the digits lo..hi of a * k, c being the carry into
\* digit lo, for 0 < k <= Base and c < Base
RECURSIVE MulDigits(_, _, _, _, _)
MulDigits(a, k, lo, hi, c) ==
  IF lo > hi THEN <<c>>
  ELSE IF lo = hi THEN <<(a[lo] * k + c) \div Base, (a[lo] * k + c) % Base>>
  ELSE (CHOOSE val \in {
          (CHOOSE val \in {
             <<up[1]>> \o Tail(dn) \o Tail(up)
           : up \in {MulDigits(a, k, (lo + hi) \div 2 + 1, hi, dn[1])} } : TRUE)
        : dn \in {MulDigits(a, k, lo, (lo + hi) \div 2, c)} } : TRUE)

\* a * k + c for 0 < k <= Base, c < Base
MulSmall(a, k, c) ==
  (CHOOSE val \in {
     Tail(d) \o (IF d[1] = 0 THEN << >> ELSE <<d[1]>>)
   : d \in {MulDigits(a, k, 1, Len(a), c)} } : TRUE)

\* the remainder and then the digits lo..hi of the quotient of a by k, r
\* being the remainder of the digits above hi, for 0 < k <= Base
RECURSIVE DivDigits(_, _, _, _, _)
DivDigits(a, k, lo, hi, r) ==
  IF lo > hi THEN <<r>>
  ELSE IF lo = hi THEN <<(r * Base + a[lo]) % k, (r * Base + a[lo]) \div k>>
  ELSE (CHOOSE val \in {
          (CHOOSE val \in {
             <<dn[1]>> \o Tail(dn) \o Tail(up)
           : dn \in {DivDigits(a, k, lo, (lo + hi) \div 2, up[1])} } : TRUE)
        : up \in {DivDigits(a, k, (lo + hi) \div 2 + 1, hi, r)} } : TRUE)

\* a \div k and a % k, for 0 < k <= Base
DivSmall(a, k) ==
  (CHOOSE val \in {
     [q |-> Trim(Tail(d)), r |-> d[1]]
   : d \in {DivDigits(a, k, 1, Len(a), 0)} } : TRUE)

\* the number of binary digits of an integer n >= 0, and of a natural number
RECURSIVE Bits(_)
Bits(n) == IF n = 0 THEN 0 ELSE 1 + Bits(n \div 2)

BitLen(a) == IF a = << >> THEN 0 ELSE LimbBits * (Len(a) - 1) + Bits(a[Len(a)])

\* a * 2^n
Shl(a, n) ==
  IF a = << >> THEN << >>
  ELSE [k \in 1..(n \div LimbBits) |-> 0] \o MulSmall(a, Pow2(n % LimbBits), 0)

\* a \div 2^n, and whether a binary digit 1 was dropped
Shr(a, n) ==
  IF n \div LimbBits >= Len(a) THEN [q |-> << >>, sticky |-> a # << >>]
  ELSE (CHOOSE val \in {
          [q |-> d.q,
           sticky |-> d.r # 0 \/ \E k \in 1..(n \div LimbBits) : a[k] # 0]
        : d \in {DivSmall(SubSeq(a, (n \div LimbBits) + 1, Len(a)), Pow2(n % LimbBits))} } : TRUE)

\* the powers of 5 are taken up to six at a time: 5^6 is below Base
PowersPerDigit == 6

\* a * 5^p
RECURSIVE MulPow5(_, _)
MulPow5(a, p) ==
  IF p <= 0 THEN a
  ELSE IF p <= PowersPerDigit THEN MulSmall(a, Pow5(p), 0)
  ELSE (CHOOSE val \in {
          MulPow5(b, p - p \div 2)
        : b \in {MulPow5(a, p \div 2)} } : TRUE)

\* a \div 5^p, and whether sticky or the division left a remainder
RECURSIVE DivPow5(_, _, _)
DivPow5(a, p, sticky) ==
  IF p <= 0 THEN [q |-> a, sticky |-> sticky]
  ELSE IF p <= PowersPerDigit
  THEN (CHOOSE val \in {
          [q |-> d.q, sticky |-> sticky \/ d.r # 0]
        : d \in {DivSmall(a, Pow5(p))} } : TRUE)
  ELSE (CHOOSE val \in {
          DivPow5(d.q, p - p \div 2, d.sticky)
        : d \in {DivPow5(a, p \div 2, sticky)} } : TRUE)

\* the whole part of a * 5^p * 2^n for integers p and n, and whether it has
\* a fraction
Scaled(a, p, n) ==
  IF p >= 0
  THEN (CHOOSE val \in {
          IF n >= 0 THEN [q |-> Shl(b, n), sticky |-> FALSE] ELSE Shr(b, 0 - n)
        : b \in {MulPow5(a, p)} } : TRUE)
  ELSE (CHOOSE val \in {
          DivPow5(b.q, 0 - p, b.sticky)
        : b \in {IF n >= 0 THEN [q |-> Shl(a, n), sticky |-> FALSE] ELSE Shr(a, 0 - n)} } : TRUE)

\* the number of binary digits 0 at the end of an integer n > 0
RECURSIVE TrailingZeros(_)
TrailingZeros(n) == IF n % 2 = 1 THEN 0 ELSE 1 + TrailingZeros(n \div 2)

(***************************************************************************)
(* Numbers are the IEEE 754 doubles: NaN, Infinity, -Infinity, or the      *)
(* finite number (-1)^neg * m * 2^e, with m a natural number that is odd,  *)
(* or 0 with e = 0 (the two zeros 0 and -0), so that equal numbers are     *)
(* equal records.  Dec(v, e) is the double of the decimal v * 10^e and     *)
(* Num(c) the double of c hundredths.                                      *)
(***************************************************************************)
NaN == [nan |-> TRUE, inf |-> FALSE, neg |-> FALSE, m |-> << >>, e |-> 0]

Infinity == [nan |-> FALSE, inf |-> TRUE, neg |-> FALSE, m |-> << >>, e |-> 0]

NegInfinity == [nan |-> FALSE, inf |-> TRUE, neg |-> TRUE, m |-> << >>, e |-> 0]

Zero == [nan |-> FALSE, inf |-> FALSE, neg |-> FALSE, m |-> << >>, e |-> 0]

NegZero == [nan |-> FALSE, inf |-> FALSE, neg |-> TRUE, m |-> << >>, e |-> 0]

Signed(neg, n) == [n EXCEPT !.neg = neg]

\* the binary digits of the significand of a double, the exponent of the
\* last binary digit of the smallest doubles, and the number of binary
\* digits before the point of the largest ones
SignificandBits == 53

MinBinaryExponent == -1074

MaxBinaryDigits == 1024

\* the double m * 2^e, for m of at most SignificandBits binary digits and
\* e >= MinBinaryExponent: Infinity from 2^MaxBinaryDigits
Double(neg, m, e) ==
  IF m = << >> THEN Signed(neg, Zero)
  ELSE IF BitLen(m) + e > MaxBinaryDigits THEN Signed(neg, Infinity)
  ELSE (CHOOSE val \in {
          [nan |-> FALSE, inf |-> FALSE, neg |-> neg,
           m |-> DivSmall(SubSeq(m, k, Len(m)), Pow2(TrailingZeros(m[k]))).q,
           e |-> e + LimbBits * (k - 1) + TrailingZeros(m[k])]
        : k \in {CHOOSE k \in 1..Len(m) : m[k] # 0 /\ \A j \in 1..(k - 1) : m[j] = 0} } : TRUE)

\* the double nearest to n * 2^e, or to a number between n * 2^e and
\* (n + 1) * 2^e when sticky, a tie going to the even significand
\* (roundTiesToEven).  t is the exponent of the last binary digit of the
\* double, q holds the digits of n from 2^(t - e - 1) on, and h those from
\* 2^(t - e) on with the digit below them
RoundToDouble(neg, n, e, sticky) ==
  IF n = << >> THEN Signed(neg, Zero)
  ELSE (CHOOSE val \in {
          IF t <= e THEN Double(neg, n, e)
          ELSE (CHOOSE val \in {
                  (CHOOSE val \in {
                     IF h.r = 1 /\ (q.sticky \/ sticky \/ Low(h.q) % 2 = 1)
                     THEN (CHOOSE val \in {
                             Double(neg, up, t)
                           : up \in {AddCarry(h.q, << >>, 1)} } : TRUE)
                     ELSE Double(neg, h.q, t)
                   : h \in {DivSmall(q.q, 2)} } : TRUE)
                : q \in {Shr(n, t - e - 1)} } : TRUE)
        : t \in {IF e + BitLen(n) - SignificandBits > MinBinaryExponent THEN e + BitLen(n) - SignificandBits ELSE MinBinaryExponent} } : TRUE)

\* the largest and the smallest decimal exponent of the leading digit of a
\* finite double that is not 0
MaxExponent == 308

MinExponent == -324

\* the binary digits a quotient is computed with: two more than a
\* significand holds, and none below 2^-MaxScale
QuotientBits == 55

MaxScale == 1080

\* the number of binary digits to compute the quotient of a natural number
\* of len binary digits by 10^q with
ScaleOf(len, q) ==
  IF QuotientBits + 2 + (10 * q) \div 3 - len < 0 THEN 0
  ELSE IF QuotientBits + 2 + (10 * q) \div 3 - len > MaxScale THEN MaxScale
  ELSE QuotientBits + 2 + (10 * q) \div 3 - len

\* the double nearest to d * 10^p, d a natural number (the value of a
\* decimal literal).  A number of MaxExponent + 2 digits or more is
\* Infinity and one below 10^MinExponent is 0: 2^(len - 1) <= d < 2^len
\* and 0.30102 < log 2 < 0.30103
FromDecimal(neg, d, p) ==
  IF d = << >> THEN Signed(neg, Zero)
  ELSE IF ((BitLen(d) - 1) * 30102) \div 100000 + p > MaxExponent + 1
  THEN Signed(neg, Infinity)
  ELSE IF (BitLen(d) * 30103) \div 100000 + 1 + p < MinExponent
  THEN Signed(neg, Zero)
  ELSE IF p >= 0
  THEN (CHOOSE val \in {
          RoundToDouble(neg, n, p, FALSE)
        : n \in {MulPow5(d, p)} } : TRUE)
  ELSE (CHOOSE val \in {
          (CHOOSE val \in {
             RoundToDouble(neg, n.q, 0 - s, n.sticky)
           : n \in {Scaled(d, p, p + s)} } : TRUE)
        : s \in {ScaleOf(BitLen(d), 0 - p)} } : TRUE)

Magnitude(v) == IF v < 0 THEN 0 - v ELSE v

\* the double nearest to v * 10^e, v an integer
Dec(v, e) == FromDecimal(v < 0, NatOf(Magnitude(v)), e)

\* the double nearest to c hundredths
Num(c) == Dec(c, -2)

isNaN(n) == n.nan

\* Number.isFinite
isFinite(n) == ~n.nan /\ ~n.inf

\* n is 0 or -0
IsZero(n) == ~n.nan /\ ~n.inf /\ n.m = << >>

\* the number of binary places between the leading digits of two doubles
\* from which their sum is the larger of them: the smaller is below a
\* quarter of a unit of the last place of the larger
AbsorbGap == 56

\* the sum of two finite numbers other than 0: the double nearest to the
\* exact sum; xy holds the two in units of 2^e
Sum(a, b) ==
  IF BitLen(a.m) + a.e - (BitLen(b.m) + b.e) > AbsorbGap THEN a
  ELSE IF BitLen(b.m) + b.e - (BitLen(a.m) + a.e) > AbsorbGap THEN b
  ELSE (CHOOSE val \in {
          (CHOOSE val \in {
             IF a.neg = b.neg
             THEN (CHOOSE val \in {
                     RoundToDouble(a.neg, n, e, FALSE)
                   : n \in {AddCarry(xy[1], xy[2], 0)} } : TRUE)
             ELSE (CHOOSE val \in {
                     IF c = 0 THEN Zero
                     ELSE (CHOOSE val \in {
                             RoundToDouble(IF c > 0 THEN a.neg ELSE b.neg,
                                           n, e, FALSE)
                           : n \in {IF c > 0 THEN SubNat(xy[1], xy[2]) ELSE SubNat(xy[2], xy[1])} } : TRUE)
                   : c \in {CmpNat(xy[1], xy[2])} } : TRUE)
           : xy \in {<<Shl(a.m, a.e - e), Shl(b.m, b.e - e)>>} } : TRUE)
        : e \in {IF a.e < b.e THEN a.e ELSE b.e} } : TRUE)

\* a + b (Number::add)
Plus(a, b) ==
  IF a.nan \/ b.nan THEN NaN
  ELSE IF a.inf /\ b.inf THEN (IF a.neg = b.neg THEN a ELSE NaN)
  ELSE IF a.inf THEN a
  ELSE IF b.inf THEN b
  ELSE IF a.m = << >> /\ b.m = << >> THEN Signed(a.neg /\ b.neg, Zero)
  ELSE IF a.m = << >> THEN b
  ELSE IF b.m = << >> THEN a
  ELSE Sum(a, b)

\* a < 0, a > 0: a comparison with NaN is false, and so is one of 0 or -0
Lt0(a) == ~a.nan /\ a.neg /\ ~IsZero(a)

Gt0(a) == ~a.nan /\ ~a.neg /\ ~IsZero(a)

\* Math.abs
Abs(a) == IF a.nan THEN NaN ELSE Signed(FALSE, a)

\* -a
Negate(a) == IF a.nan THEN NaN ELSE Signed(~a.neg, a)

Digits == <<"0","1","2","3","4","5","6","7","8","9">>

IsDigit(c) == \E i \in 1..10 : Digits[i] = c

DigitVal(c) == (CHOOSE i \in 1..10 : Digits[i] = c) - 1

\* the decimal digits of an integer n >= 0
RECURSIVE DigitsOf(_)
DigitsOf(n) ==
  IF n < 10 THEN <<Digits[n + 1]>> ELSE DigitsOf(n \div 10) \o <<Digits[(n % 10) + 1]>>

\* the w last decimal digits of an integer n >= 0
RECURSIVE PadDigits(_, _)
PadDigits(n, w) ==
  IF w = 0 THEN << >> ELSE PadDigits(n \div 10, w - 1) \o <<Digits[(n % 10) + 1]>>

Zeros(n) == [k \in 1..n |-> "0"]

\* the decimal digits of a natural number
RECURSIVE DecimalDigits(_)
DecimalDigits(a) ==
  IF Len(a) <= 1 THEN DigitsOf(Low(a))
  ELSE (CHOOSE val \in {
          DecimalDigits(d.q) \o PadDigits(d.r, 4)
        : d \in {DivSmall(a, 10000)} } : TRUE)

\* the natural number of the decimal digits lo..hi of ds: the one of the
\* first half times the power of 10 of the second, and the one of the second
RECURSIVE DigitsNat(_, _, _)
DigitsNat(ds, lo, hi) ==
  IF lo > hi THEN << >>
  ELSE IF lo = hi THEN NatOf(DigitVal(ds[lo]))
  ELSE (CHOOSE val \in {
          (CHOOSE val \in {
             AddCarry(Shl(MulPow5(up, hi - (lo + hi) \div 2), hi - (lo + hi) \div 2), dn, 0)
           : dn \in {DigitsNat(ds, (lo + hi) \div 2 + 1, hi)} } : TRUE)
        : up \in {DigitsNat(ds, lo, (lo + hi) \div 2)} } : TRUE)

\* last position of ds that holds a digit other than 0 (0 when none does)
LastNonZero(ds) ==
  IF \E k \in 1..Len(ds) : ds[k] # "0"
  THEN CHOOSE k \in 1..Len(ds) : ds[k] # "0" /\ \A j \in (k + 1)..Len(ds) : ds[j] = "0"
  ELSE 0

\* the decimal 0.digits * 10^point of a natural number times 10^p, written
\* without the zeros at its end
Decimal(a, p) ==
  (CHOOSE val \in {
     [digits |-> SubSeq(ds, 1, LastNonZero(ds)), point |-> Len(ds) + p]
   : ds \in {DecimalDigits(a)} } : TRUE)

\* the number of digits before the point of the finite number x > 0 (0 or
\* less for the zeros after the point): one of two numbers, since
\* 2^(top - 1) <= x < 2^top
PointOf(x) ==
  (CHOOSE val \in {
     IF Scaled(x.m, 0 - n, x.e - n).q # << >> THEN n + 1 ELSE n
   : n \in {((BitLen(x.m) + x.e - 1) * 30103) \div 100000 + 1} } : TRUE)

\* the largest number of digits a double is written with
MaxDigits == 17

\* the decimal of k digits nearest to x > 0, and whether x is the nearest
\* double of it.  point is PointOf(x); t holds the k + 1 first digits of x,
\* lo the k first and lo.r the digit after them, hi is one more than lo;
\* of lo and hi the nearer to x is taken when x is the double of both, and
\* the even one when x is in their middle
Nearest(x, point, k) ==
  (CHOOSE val \in {
     (CHOOSE val \in {
        IF lo.r = 0 /\ ~t.sticky THEN [ok |-> TRUE, decimal |-> Decimal(lo.q, point - k)]
        ELSE (CHOOSE val \in {
                (CHOOSE val \in {
                   [ok |-> ok[1] \/ ok[2],
                    decimal |-> IF ok[1] /\ (~ok[2] \/ lo.r < 5
                                               \/ (lo.r = 5 /\ ~t.sticky /\ Low(lo.q) % 2 = 0))
                                THEN Decimal(lo.q, point - k)
                                ELSE Decimal(hi, point - k)]
                 : ok \in {<<FromDecimal(FALSE, lo.q, point - k) = x, FromDecimal(FALSE, hi, point - k) = x>>} } : TRUE)
              : hi \in {AddCarry(lo.q, << >>, 1)} } : TRUE)
      : lo \in {DivSmall(t.q, 10)} } : TRUE)
   : t \in {Scaled(x.m, k + 1 - point, x.e + k + 1 - point)} } : TRUE)

\* the decimal of the fewest digits, k or more, that x > 0 is the nearest
\* double of
RECURSIVE Shortest(_, _, _)
Shortest(x, point, k) ==
  (CHOOSE val \in {
     IF n.ok \/ k >= MaxDigits THEN n.decimal ELSE Shortest(x, point, k + 1)
   : n \in {Nearest(x, point, k)} } : TRUE)

sNaN == <<"N","a","N">>

sInfinity == <<"I","n","f","i","n","i","t","y">>

\* String(n) of a number (Number::toString): the digits of the shortest
\* decimal that n is the nearest double of, with the point at its place when
\* n has from 1 to 21 digits before it or up to 5 zeros after it, and the
\* notation with an exponent otherwise
NumberToString(n) ==
  IF n.nan THEN sNaN
  ELSE IF n.inf THEN (IF n.neg THEN <<"-">> ELSE << >>) \o sInfinity
  ELSE IF n.m = << >> THEN <<"0">>
  ELSE (CHOOSE val \in {
          (CHOOSE val \in {
             LET digits == d.digits
                 k      == Len(digits)
                 point  == d.point
                 x      == point - 1
                 body   == IF k <= point /\ point <= 21 THEN digits \o Zeros(point - k)
                           ELSE IF 0 < point /\ point <= 21
                           THEN SubSeq(digits, 1, point) \o <<".">> \o SubSeq(digits, point + 1, k)
                           ELSE IF -6 < point /\ point <= 0
                           THEN <<"0", ".">> \o Zeros(0 - point) \o digits
                           ELSE (IF k = 1 THEN digits
                                 ELSE <<digits[1], ".">> \o SubSeq(digits, 2, k))
                                \o <<"e", IF x < 0 THEN "-" ELSE "+">> \o DigitsOf(Magnitude(x))
             IN (IF n.neg THEN <<"-">> ELSE << >>) \o body
           : d \in {Shortest(Abs(n), p, 1)} } : TRUE)
        : p \in {PointOf(n)} } : TRUE)

\* first position >= k of s that holds no digit (Len(s) + 1 when all do)
DigitsEnd(s, k) ==
  IF k > Len(s) THEN k
  ELSE CHOOSE j \in k..(Len(s) + 1) :
         (j = Len(s) + 1 \/ ~IsDigit(s[j])) /\ \A i \in k..(j - 1) : IsDigit(s[i])

\* first position >= k of s that holds no white space
SpaceEnd(s, k) ==
  IF k > Len(s) THEN k
  ELSE CHOOSE j \in k..(Len(s) + 1) :
         (j = Len(s) + 1 \/ ~IsSpace(s[j])) /\ \A i \in k..(j - 1) : IsSpace(s[i])

\* last position <= k of s that holds no white space (0 when all do)
SpaceStart(s, k) ==
  IF k < 1 THEN k
  ELSE CHOOSE j \in 0..k : (j = 0 \/ ~IsSpace(s[j])) /\ \A i \in (j + 1)..k : IsSpace(s[i])

\* first position >= k of s that holds no "0"
ZerosEnd(s, k) ==
  IF k > Len(s) THEN k
  ELSE CHOOSE j \in k..(Len(s) + 1) :
         (j = Len(s) + 1 \/ s[j] # "0") /\ \A i \in k..(j - 1) : s[i] = "0"

\* value of the digits s[a..b-1], nine at most
RECURSIVE DigitsValue(_, _, _)
DigitsValue(s, a, b) ==
  IF a >= b THEN 0 ELSE DigitsValue(s, a, b - 1) * 10 + DigitVal(s[b - 1])

\* the value of the digits s[a..b-1] of an exponent, or ExponentCap
\* (INT_MAX / 2) when it is larger
ExponentCap == 1073741823

ExponentValue(s, a, b) ==
  (CHOOSE val \in {
     IF b - z > 10 THEN ExponentCap
     ELSE IF b - z < 10 THEN DigitsValue(s, z, b)
     ELSE (CHOOSE val \in {
             IF v > ExponentCap \div 10
                  \/ (v = ExponentCap \div 10 /\ DigitVal(s[b - 1]) > ExponentCap % 10)
             THEN ExponentCap
             ELSE v * 10 + DigitVal(s[b - 1])
           : v \in {DigitsValue(s, z, b - 1)} } : TRUE)
   : z \in {ZerosEnd(SubSeq(s, 1, b - 1), a)} } : TRUE)

\* the longest StrDecimalLiteral that s holds at position k: a sign, then
\* Infinity, or digits with a fraction and an exponent part.  ok tells
\* whether there is one, end is the position after it
ScanDecimal(s, k) ==
  LET signed == k <= Len(s) /\ s[k] \in {"-", "+"}
      neg    == signed /\ s[k] = "-"
      i1     == IF signed THEN k + 1 ELSE k
      i2     == DigitsEnd(s, i1)
      dot    == i2 <= Len(s) /\ s[i2] = "."
      i3     == IF dot THEN DigitsEnd(s, i2 + 1) ELSE i2
      nfrac  == IF dot THEN i3 - (i2 + 1) ELSE 0
      hasE   == i3 <= Len(s) /\ s[i3] \in {"e", "E"}
      j1     == IF hasE /\ i3 + 1 <= Len(s) /\ s[i3 + 1] \in {"-", "+"}
                THEN i3 + 2 ELSE i3 + 1
      j2     == DigitsEnd(s, j1)
      hasExp == hasE /\ j2 > j1
      expNeg == hasExp /\ s[i3 + 1] = "-"
      exp    == IF hasExp
                THEN (IF expNeg THEN 0 - ExponentValue(s, j1, j2) ELSE ExponentValue(s, j1, j2))
                ELSE 0
      ds     == SubSeq(s, i1, i2 - 1) \o SubSeq(s, i2 + 1, i3 - 1)
  IN IF OccursAt(s, sInfinity, i1)
     THEN [ok |-> TRUE, end |-> i1 + Len(sInfinity),
           value |-> IF neg THEN NegInfinity ELSE Infinity]
     ELSE IF Len(ds) = 0 THEN [ok |-> FALSE, end |-> k, value |-> NaN]
     ELSE [ok |-> TRUE, end |-> IF hasExp THEN j2 ELSE i3,
           value |-> FromDecimal(neg, DigitsNat(ds, 1, Len(ds)), exp - nfrac)]

\* parseFloat: leading white space is skipped; what follows the longest
\* numeric prefix is ignored; NaN when there is no such prefix
parseFloat(s) == ScanDecimal(s, SpaceEnd(s, 1)).value

LowerHexDigits ==
  <<"0","1","2","3","4","5","6","7","8","9","a","b","c","d","e","f">>

\* the value of a digit of base 16, 16 for any other character
RadixDigit(c) ==
  IF \E i \in 1..16 : LowerHexDigits[i] = c
  THEN (CHOOSE i \in 1..16 : LowerHexDigits[i] = c) - 1
  ELSE IF \E i \in 1..16 : UpperHexDigits[i] = c
  THEN (CHOOSE i \in 1..16 : UpperHexDigits[i] = c) - 1
  ELSE 16

\* the natural number of the digits lo..hi of s in base 2^bits
RECURSIVE RadixNat(_, _, _, _)
RadixNat(s, bits, lo, hi) ==
  IF lo > hi THEN << >>
  ELSE IF lo = hi THEN NatOf(RadixDigit(s[lo]))
  ELSE (CHOOSE val \in {
          (CHOOSE val \in {
             AddCarry(Shl(up, bits * (hi - (lo + hi) \div 2)), dn, 0)
           : dn \in {RadixNat(s, bits, (lo + hi) \div 2 + 1, hi)} } : TRUE)
        : up \in {RadixNat(s, bits, lo, (lo + hi) \div 2)} } : TRUE)

\* the double nearest to the digits of s in base 2^bits; NaN when s is empty
\* or holds a character that is no digit of that base
RadixNumber(s, bits) ==
  IF s # << >> /\ \A k \in 1..Len(s) : RadixDigit(s[k]) < Pow2(bits)
  THEN (CHOOSE val \in {
          RoundToDouble(FALSE, n, 0, FALSE)
        : n \in {RadixNat(s, bits, 1, Len(s))} } : TRUE)
  ELSE NaN

\* the binary digits of a digit of the base a prefix 0x, 0o or 0b
\* announces, 0 when s has no such prefix
RadixOf(s) ==
  IF Len(s) >= 2 /\ s[1] = "0"
  THEN (IF s[2] \in {"x", "X"} THEN 4
        ELSE IF s[2] \in {"o", "O"} THEN 3
        ELSE IF s[2] \in {"b", "B"} THEN 1 ELSE 0)
  ELSE 0

\* Number(s) of a string: white space around the literal is dropped; the
\* empty literal is 0; a literal is a StrDecimalLiteral or an unsigned
\* integer in base 16, 8 or 2; NaN when anything else is left
NumberOf(s) ==
  (CHOOSE val \in {
     IF t = << >> THEN Zero
     ELSE IF RadixOf(t) # 0 THEN RadixNumber(SubSeq(t, 3, Len(t)), RadixOf(t))
     ELSE (CHOOSE val \in {
             IF scan.ok /\ scan.end = Len(t) + 1 THEN scan.value ELSE NaN
           : scan \in {ScanDecimal(t, 1)} } : TRUE)
   : t \in {SubSeq(s, SpaceEnd(s, 1), SpaceStart(s, Len(s)))} } : TRUE)

(***************************************************************************)
(* Dates.  A Date is invalid or an instant, held by its fields in UTC: y,  *)
(* m (1..12), d, h, mi, s, ms.  A time is the day of an instant, counted   *)
(* from 1 January 1970, and the milliseconds of that day.  The host gives  *)
(* the time zone of the machine (tz) and the largest small integer of the  *)
(* build of the engine (smi).                                              *)
(***************************************************************************)
InvalidDate ==
  [valid |-> FALSE, y |-> 0, m |-> 0, d |-> 0, h |-> 0, mi |-> 0, s |-> 0, ms |-> 0]

DateTimeOf(y, m, d, h, mi, s, ms) ==
  [valid |-> TRUE, y |-> y, m |-> m, d |-> d, h |-> h, mi |-> mi, s |-> s, ms |-> ms]

\* midnight of a day in UTC
DateOf(y, m, d) == DateTimeOf(y, m, d, 0, 0, 0, 0)

\* the day number of a day of the proleptic Gregorian calendar (0 is
\* 1 January 1970), and the day <<y, m, d>> of a day number
DaysFromCivil(y, m, d) ==
  LET yy  == IF m <= 2 THEN y - 1 ELSE y
      era == yy \div 400
      yoe == yy - era * 400
      doy == ((153 * (IF m > 2 THEN m - 3 ELSE m + 9) + 2) \div 5) + d - 1
      doe == yoe * 365 + (yoe \div 4) - (yoe \div 100) + doy
  IN era * 146097 + doe - 719468

CivilFromDays(z) ==
  LET zz  == z + 719468
      era == zz \div 146097
      doe == zz - era * 146097
      yoe == (doe - (doe \div 1460) + (doe \div 36524) - (doe \div 146096)) \div 365
      doy == doe - (365 * yoe + (yoe \div 4) - (yoe \div 100))
      mp  == (5 * doy + 2) \div 153
      d   == doy - ((153 * mp + 2) \div 5) + 1
      m   == IF mp < 10 THEN mp + 3 ELSE mp - 9
  IN <<(yoe + era * 400) + (IF m <= 2 THEN 1 ELSE 0), m, d>>

MsPerDay == 86400000

SecPerDay == 86400

\* the days of TimeClip on each side of 1 January 1970
MaxDays == 100000000

\* the time ms milliseconds after the start of a day
TimeOf(day, ms) == [day |-> day + (ms \div MsPerDay), ms |-> ms % MsPerDay]

\* TimeClip, and the Date of a time
DateAt(t) ==
  IF t.day < 0 - MaxDays \/ t.day > MaxDays \/ (t.day = MaxDays /\ t.ms > 0)
  THEN InvalidDate
  ELSE (CHOOSE val \in {
          DateTimeOf(c[1], c[2], c[3], t.ms \div 3600000, (t.ms \div 60000) % 60,
                     (t.ms \div 1000) % 60, t.ms % 1000)
        : c \in {CivilFromDays(t.day)} } : TRUE)

\* the time of a valid Date
TimeAt(date) ==
  [day |-> DaysFromCivil(date.y, date.m, date.d),
   ms  |-> ((date.h * 60 + date.mi) * 60 + date.s) * 1000 + date.ms]

(***************************************************************************)
(* The time zones of the host, as the tz database has them in the release  *)
(* the engine carries (2025c; Portugal as revised in 2024b): the offset    *)
(* from UTC in seconds before the first transition (initial), the          *)
(* transitions <<day, second of the day, offset from then on>> in UTC, and *)
(* for the zones that keep the summer time of the European Union the year  *)
(* from which they do, with the offsets of winter (std) and summer (dst).  *)
(***************************************************************************)
NoRule == [on |-> FALSE, year |-> 0, std |-> 0, dst |-> 0]

SummerTimeRule(year, std, dst) == [on |-> TRUE, year |-> year, std |-> std, dst |-> dst]

\* the second of the day, in UTC, at which summer time starts on the last
\* Sunday of March and ends on the last Sunday of October
RuleSecond == 3600

\* UTC
UTCZone ==
  [name |-> "UTC", initial |-> 0, transitions |-> << >>,
   rule |-> NoRule]

LisbonTransitions ==
  <<
    <<-21185,0,0>>,<<-19556,82800,3600>>,<<-19419,0,0>>,<<-19299,0,3600>>,
    <<-19072,82800,0>>,<<-18934,0,3600>>,<<-18707,82800,0>>,<<-18569,0,3600>>,
    <<-18342,82800,0>>,<<-18203,0,3600>>,<<-17976,82800,0>>,<<-17838,0,3600>>,
    <<-17611,82800,0>>,<<-16696,82800,3600>>,<<-16525,82800,0>>,
    <<-15965,82800,3600>>,<<-15797,82800,0>>,<<-15608,82800,3600>>,
    <<-15433,82800,0>>,<<-15237,82800,3600>>,<<-15062,82800,0>>,
    <<-14866,82800,3600>>,<<-14698,82800,0>>,<<-14138,82800,3600>>,
    <<-13970,82800,0>>,<<-13788,82800,3600>>,<<-13606,82800,0>>,
    <<-13053,82800,3600>>,<<-12871,82800,0>>,<<-12696,82800,3600>>,
    <<-12507,82800,0>>,<<-12311,82800,3600>>,<<-12143,82800,0>>,
    <<-11961,82800,3600>>,<<-11779,82800,0>>,<<-11604,82800,3600>>,
    <<-11415,82800,0>>,<<-11219,82800,3600>>,<<-11002,82800,0>>,
    <<-10904,82800,3600>>,<<-10678,82800,0>>,<<-10498,82800,3600>>,
    <<-10315,82800,0>>,<<-10155,82800,3600>>,<<-10113,79200,7200>>,
    <<-10001,79200,3600>>,<<-9931,82800,0>>,<<-9791,82800,3600>>,
    <<-9756,79200,7200>>,<<-9623,79200,3600>>,<<-9560,82800,0>>,
    <<-9427,82800,3600>>,<<-9385,79200,7200>>,<<-9259,79200,3600>>,
    <<-9196,82800,0>>,<<-9063,82800,3600>>,<<-9021,79200,7200>>,
    <<-8895,79200,3600>>,<<-8832,82800,0>>,<<-8671,82800,3600>>,
    <<-8489,82800,0>>,<<-8306,7200,3600>>,<<-8124,7200,0>>,
    <<-7942,7200,3600>>,<<-7760,7200,0>>,<<-7578,7200,3600>>,<<-7396,7200,0>>,
    <<-7214,7200,3600>>,<<-7032,7200,0>>,<<-6850,7200,3600>>,<<-6661,7200,0>>,
    <<-6479,7200,3600>>,<<-6297,7200,0>>,<<-6115,7200,3600>>,<<-5933,7200,0>>,
    <<-5751,7200,3600>>,<<-5569,7200,0>>,<<-5387,7200,3600>>,<<-5205,7200,0>>,
    <<-5023,7200,3600>>,<<-4834,7200,0>>,<<-4652,7200,3600>>,<<-4470,7200,0>>,
    <<-4288,7200,3600>>,<<-4106,7200,0>>,<<-3924,7200,3600>>,<<-3742,7200,0>>,
    <<-3560,7200,3600>>,<<-3378,7200,0>>,<<-3196,7200,3600>>,<<-3014,7200,0>>,
    <<-2832,7200,3600>>,<<-2643,7200,0>>,<<-2461,7200,3600>>,<<-2279,7200,0>>,
    <<-2097,7200,3600>>,<<-1915,7200,0>>,<<-1733,7200,3600>>,<<-1551,7200,0>>,
    <<-1369,7200,3600>>,<<2460,0,0>>,<<2642,0,3600>>,<<2824,0,0>>,
    <<3013,3600,3600>>,<<3195,3600,0>>,<<3377,3600,3600>>,<<3559,3600,0>>,
    <<3748,3600,3600>>,<<3923,3600,0>>,<<4105,0,3600>>,<<4287,0,0>>,
    <<4469,0,3600>>,<<4651,0,0>>,<<4833,0,3600>>,<<5015,0,0>>,<<5197,0,3600>>,
    <<5386,0,0>>,<<5568,0,3600>>,<<5750,0,0>>,<<5932,3600,3600>>,
    <<6114,3600,0>>,<<6296,3600,3600>>,<<6478,3600,0>>,<<6660,3600,3600>>,
    <<6842,3600,0>>,<<7024,3600,3600>>,<<7206,3600,0>>,<<7388,3600,3600>>,
    <<7577,3600,0>>,<<7759,3600,3600>>,<<7941,3600,0>>,<<8123,3600,3600>>,
    <<8487,3600,7200>>,<<8669,3600,3600>>,<<8851,3600,7200>>,
    <<9033,3600,3600>>,<<9215,3600,7200>>,<<9397,3600,3600>>,<<9796,3600,0>> >>

\* Europe/Lisbon
Lisbon ==
  [name |-> "Europe/Lisbon", initial |-> -2205, transitions |-> LisbonTransitions,
   rule |-> SummerTimeRule(1997, 0, 3600)]

AzoresTransitions ==
  <<
    <<-31411,6160,-6872>>,<<-21185,7200,-7200>>,<<-19555,3600,-3600>>,
    <<-19419,7200,-7200>>,<<-19299,7200,-3600>>,<<-19071,3600,-7200>>,
    <<-18934,7200,-3600>>,<<-18706,3600,-7200>>,<<-18569,7200,-3600>>,
    <<-18341,3600,-7200>>,<<-18203,7200,-3600>>,<<-17975,3600,-7200>>,
    <<-17838,7200,-3600>>,<<-17610,3600,-7200>>,<<-16695,3600,-3600>>,
    <<-16524,3600,-7200>>,<<-15964,3600,-3600>>,<<-15796,3600,-7200>>,
    <<-15607,3600,-3600>>,<<-15432,3600,-7200>>,<<-15236,3600,-3600>>,
    <<-15061,3600,-7200>>,<<-14865,3600,-3600>>,<<-14697,3600,-7200>>,
    <<-14137,3600,-3600>>,<<-13969,3600,-7200>>,<<-13787,3600,-3600>>,
    <<-13605,3600,-7200>>,<<-13052,3600,-3600>>,<<-12870,3600,-7200>>,
    <<-12695,3600,-3600>>,<<-12506,3600,-7200>>,<<-12310,3600,-3600>>,
    <<-12142,3600,-7200>>,<<-11960,3600,-3600>>,<<-11778,3600,-7200>>,
    <<-11603,3600,-3600>>,<<-11414,3600,-7200>>,<<-11218,3600,-3600>>,
    <<-11001,3600,-7200>>,<<-10903,3600,-3600>>,<<-10677,3600,-7200>>,
    <<-10497,3600,-3600>>,<<-10314,3600,-7200>>,<<-10154,3600,-3600>>,
    <<-10112,0,0>>,<<-10000,0,-3600>>,<<-9930,3600,-7200>>,
    <<-9790,3600,-3600>>,<<-9755,0,0>>,<<-9622,0,-3600>>,<<-9559,3600,-7200>>,
    <<-9426,3600,-3600>>,<<-9384,0,0>>,<<-9258,0,-3600>>,<<-9195,3600,-7200>>,
    <<-9062,3600,-3600>>,<<-9020,0,0>>,<<-8894,0,-3600>>,<<-8831,3600,-7200>>,
    <<-8670,3600,-3600>>,<<-8488,3600,-7200>>,<<-8306,14400,-3600>>,
    <<-8124,14400,-7200>>,<<-7942,14400,-3600>>,<<-7760,14400,-7200>>,
    <<-7578,14400,-3600>>,<<-7396,14400,-7200>>,<<-7214,14400,-3600>>,
    <<-7032,14400,-7200>>,<<-6850,14400,-3600>>,<<-6661,14400,-7200>>,
    <<-6479,14400,-3600>>,<<-6297,14400,-7200>>,<<-6115,14400,-3600>>,
    <<-5933,14400,-7200>>,<<-5751,14400,-3600>>,<<-5569,14400,-7200>>,
    <<-5387,14400,-3600>>,<<-5205,14400,-7200>>,<<-5023,14400,-3600>>,
    <<-4834,14400,-7200>>,<<-4652,14400,-3600>>,<<-4470,14400,-7200>>,
    <<-4288,14400,-3600>>,<<-4106,14400,-7200>>,<<-3924,14400,-3600>>,
    <<-3742,14400,-7200>>,<<-3560,14400,-3600>>,<<-3378,14400,-7200>>,
    <<-3196,14400,-3600>>,<<-3014,14400,-7200>>,<<-2832,14400,-3600>>,
    <<-2643,14400,-7200>>,<<-2461,14400,-3600>>,<<-2279,14400,-7200>>,
    <<-2097,14400,-3600>>,<<-1915,14400,-7200>>,<<-1733,14400,-3600>>,
    <<-1551,14400,-7200>>,<<-1369,14400,-3600>>,<<4469,3600,0>>,
    <<4651,3600,-3600>>,<<4833,3600,0>>,<<5015,3600,-3600>>,<<5197,3600,0>>,
    <<5386,3600,-3600>>,<<5568,3600,0>>,<<5750,3600,-3600>>,<<5932,3600,0>>,
    <<6114,3600,-3600>>,<<6296,3600,0>>,<<6478,3600,-3600>>,<<6660,3600,0>>,
    <<6842,3600,-3600>>,<<7024,3600,0>>,<<7206,3600,-3600>>,<<7388,3600,0>>,
    <<7577,3600,-3600>>,<<7759,3600,0>>,<<7941,3600,-3600>>,<<8123,3600,0>>,
    <<8305,3600,-3600>>,<<8396,7200,0>>,<<8487,3600,3600>>,<<8568,3600,0>>,
    <<8669,3600,-3600>>,<<8851,3600,0>>,<<9033,3600,-3600>>,<<9215,3600,0>>,
    <<9397,3600,-3600>> >>

\* Atlantic/Azores
Azores ==
  [name |-> "Atlantic/Azores", initial |-> -6160, transitions |-> AzoresTransitions,
   rule |-> SummerTimeRule(1996, -3600, 0)]

TokyoTransitions ==
  <<
    <<-29951,54000,32400>>,<<-7915,54000,36000>>,<<-7782,54000,32400>>,
    <<-7579,54000,36000>>,<<-7418,54000,32400>>,<<-7180,54000,36000>>,
    <<-7054,54000,32400>>,<<-6816,54000,36000>>,<<-6690,54000,32400>> >>

\* Asia/Tokyo
Tokyo ==
  [name |-> "Asia/Tokyo", initial |-> 33539, transitions |-> TokyoTransitions,
   rule |-> NoRule]

SaoPauloTransitions ==
  <<
    <<-20454,11188,-10800>>,<<-13970,50400,-7200>>,<<-13789,7200,-10800>>,
    <<-13604,10800,-7200>>,<<-13424,7200,-10800>>,<<-7336,10800,-7200>>,
    <<-7200,10800,-10800>>,<<-6971,10800,-7200>>,<<-6850,7200,-10800>>,
    <<-6606,10800,-7200>>,<<-6484,7200,-10800>>,<<-6240,10800,-7200>>,
    <<-6150,7200,-10800>>,<<-2262,10800,-7200>>,<<-2132,7200,-10800>>,
    <<-1796,10800,-7200>>,<<-1737,7200,-10800>>,<<-1492,10800,-7200>>,
    <<-1402,7200,-10800>>,<<-1157,10800,-7200>>,<<-1037,7200,-10800>>,
    <<-792,10800,-7200>>,<<-671,7200,-10800>>,<<5784,10800,-7200>>,
    <<5917,7200,-10800>>,<<6141,10800,-7200>>,<<6253,7200,-10800>>,
    <<6506,10800,-7200>>,<<6611,7200,-10800>>,<<6863,10800,-7200>>,
    <<6968,7200,-10800>>,<<7227,10800,-7200>>,<<7346,7200,-10800>>,
    <<7598,10800,-7200>>,<<7717,7200,-10800>>,<<7962,10800,-7200>>,
    <<8074,7200,-10800>>,<<8333,10800,-7200>>,<<8431,7200,-10800>>,
    <<8690,10800,-7200>>,<<8816,7200,-10800>>,<<9054,10800,-7200>>,
    <<9180,7200,-10800>>,<<9418,10800,-7200>>,<<9537,7200,-10800>>,
    <<9775,10800,-7200>>,<<9908,7200,-10800>>,<<10140,10800,-7200>>,
    <<10286,7200,-10800>>,<<10510,10800,-7200>>,<<10643,7200,-10800>>,
    <<10867,10800,-7200>>,<<11014,7200,-10800>>,<<11238,10800,-7200>>,
    <<11371,7200,-10800>>,<<11609,10800,-7200>>,<<11735,7200,-10800>>,
    <<11994,10800,-7200>>,<<12099,7200,-10800>>,<<12344,10800,-7200>>,
    <<12463,7200,-10800>>,<<12724,10800,-7200>>,<<12834,7200,-10800>>,
    <<13072,10800,-7200>>,<<13198,7200,-10800>>,<<13457,10800,-7200>>,
    <<13569,7200,-10800>>,<<13800,10800,-7200>>,<<13926,7200,-10800>>,
    <<14171,10800,-7200>>,<<14290,7200,-10800>>,<<14535,10800,-7200>>,
    <<14661,7200,-10800>>,<<14899,10800,-7200>>,<<15025,7200,-10800>>,
    <<15263,10800,-7200>>,<<15396,7200,-10800>>,<<15634,10800,-7200>>,
    <<15753,7200,-10800>>,<<15998,10800,-7200>>,<<16117,7200,-10800>>,
    <<16362,10800,-7200>>,<<16488,7200,-10800>>,<<16726,10800,-7200>>,
    <<16852,7200,-10800>>,<<17090,10800,-7200>>,<<17216,7200,-10800>>,
    <<17454,10800,-7200>>,<<17580,7200,-10800>>,<<17839,10800,-7200>>,
    <<17944,7200,-10800>> >>

\* America/Sao_Paulo
SaoPaulo ==
  [name |-> "America/Sao_Paulo", initial |-> -11188, transitions |-> SaoPauloTransitions,
   rule |-> NoRule]

\* the largest small integer of a build of the engine: 2^30 - 1 with
\* compressed pointers (the browser), 2^31 - 1 without
SmiMaxCompressed == 1073741823

SmiMaxFull == 2147483647

Host(tz, smi) == [tz |-> tz, smi |-> smi]

Hosts ==
  {Host(tz, smi) : tz \in {UTCZone, Lisbon, Azores, Tokyo, SaoPaulo},
                   smi \in {SmiMaxCompressed, SmiMaxFull}}

\* the last Sunday of March or October of year y (months of 31 days); day 0
\* is a Thursday
LastSunday(y, m) == (CHOOSE val \in {
                       d - ((d + 4) % 7)
                     : d \in {DaysFromCivil(y, m, 31)} } : TRUE)

\* the time t is not before the second sec (of any sign) of a day
AtOrAfter(t, day, sec) ==
  \/ t.day > day + (sec \div SecPerDay)
  \/ /\ t.day = day + (sec \div SecPerDay)
     /\ t.ms >= (sec % SecPerDay) * 1000

Larger(a, b) == IF a >= b THEN a ELSE b

\* the offset of a zone before its transition i
OffsetBefore(zone, i) == IF i = 1 THEN zone.initial ELSE zone.transitions[i - 1][3]

\* the local time t is after transition i: a local time that a transition
\* skips or repeats is read with the offset before the transition
LocalAfter(zone, t, i) ==
  AtOrAfter(t, zone.transitions[i][1],
            zone.transitions[i][2] + Larger(OffsetBefore(zone, i), zone.transitions[i][3]))

\* the offset from UTC, in seconds, of the local time t
LocalOffset(zone, t) ==
  IF zone.rule.on /\ CivilFromDays(t.day)[1] >= zone.rule.year
  THEN (CHOOSE val \in {
          IF /\ AtOrAfter(t, LastSunday(y, 3), RuleSecond + Larger(zone.rule.std, zone.rule.dst))
             /\ ~AtOrAfter(t, LastSunday(y, 10), RuleSecond + Larger(zone.rule.std, zone.rule.dst))
          THEN zone.rule.dst ELSE zone.rule.std
        : y \in {CivilFromDays(t.day)[1]} } : TRUE)
  ELSE (CHOOSE val \in {
          IF i = 0 THEN zone.initial ELSE zone.transitions[i][3]
        : i \in {
            CHOOSE i \in 0..Len(zone.transitions) :
              /\ i = 0 \/ LocalAfter(zone, t, i)
              /\ i = Len(zone.transitions) \/ ~LocalAfter(zone, t, i + 1) } } : TRUE)

\* the offset from UTC, in seconds, at the time t
OffsetAt(zone, t) ==
  IF zone.rule.on /\ CivilFromDays(t.day)[1] >= zone.rule.year
  THEN (CHOOSE val \in {
          IF /\ AtOrAfter(t, LastSunday(y, 3), RuleSecond)
             /\ ~AtOrAfter(t, LastSunday(y, 10), RuleSecond)
          THEN zone.rule.dst ELSE zone.rule.std
        : y \in {CivilFromDays(t.day)[1]} } : TRUE)
  ELSE (CHOOSE val \in {
          IF i = 0 THEN zone.initial ELSE zone.transitions[i][3]
        : i \in {
            CHOOSE i \in 0..Len(zone.transitions) :
              /\ i = 0 \/ AtOrAfter(t, zone.transitions[i][1], zone.transitions[i][2])
              /\ \/ i = Len(zone.transitions)
                 \/ ~AtOrAfter(t, zone.transitions[i + 1][1], zone.transitions[i + 1][2]) } } : TRUE)

\* DateCache::ToUTC: the time of the local time t
ToUTC(host, t) ==
  (CHOOSE val \in {
     TimeOf(t.day, t.ms - offset * 1000)
   : offset \in {LocalOffset(host.tz, t)} } : TRUE)

\* the fields of a valid Date in the time zone of the host (getFullYear,
\* getMonth + 1, getDate, getHours, ...)
LocalFields(date, host) ==
  (CHOOSE val \in {
     (CHOOSE val \in {
        (CHOOSE val \in {
           DateTimeOf(c[1], c[2], c[3], l.ms \div 3600000, (l.ms \div 60000) % 60,
                      (l.ms \div 1000) % 60, l.ms % 1000)
         : c \in {CivilFromDays(l.day)} } : TRUE)
      : l \in {TimeOf(t.day, t.ms + OffsetAt(host.tz, t) * 1000)} } : TRUE)
   : t \in {TimeAt(date)} } : TRUE)

\* the bounds of MakeDay on the year and on the month index
MaxYear == 1000000

MaxMonth == 10000000

\* the division of C++: towards 0
TruncDiv(a, b) == IF a >= 0 THEN a \div b ELSE 0 - ((0 - a) \div b)

\* kYearDelta, and the days up to a year as MakeDay counts them
YearDelta == 399999

DaysToYear(y) ==
  365 * (y + YearDelta) + TruncDiv(y + YearDelta, 4) - TruncDiv(y + YearDelta, 100)
    + TruncDiv(y + YearDelta, 400)

DayFromMonth == <<0, 31, 59, 90, 120, 151, 181, 212, 243, 273, 304, 334>>

DayFromMonthLeap == <<0, 31, 60, 91, 121, 152, 182, 213, 244, 274, 305, 335>>

\* MakeDay of whole numbers, the year and the month index within their
\* bounds: the month index counts from 0 and carries into the year, the
\* day of the month carries into the month
MakeDay(year, month, date) ==
  LET y == year + (month \div 12)
      m == month % 12
  IN DaysToYear(y) - DaysToYear(1970)
       + (IF y % 4 # 0 \/ (y % 100 = 0 /\ y % 400 # 0)
          THEN DayFromMonth[m + 1] ELSE DayFromMonthLeap[m + 1])
       - 1 + date

\* the binary digits of the largest time value, and of the whole numbers
\* that are kept as such
TimeBits == 54

IntegerBits == 30

\* new Date(value) of a number: the time value is its integer part, in
\* milliseconds from 1 January 1970 UTC.  A day has 2^10 * 3125 * 27 ms
NewDateNumber(x) ==
  IF ~isFinite(x) \/ BitLen(x.m) + x.e > TimeBits THEN InvalidDate
  ELSE (CHOOSE val \in {
          (CHOOSE val \in {
             (CHOOSE val \in {
                IF x.neg
                THEN DateAt(TimeOf(0 - IntOf(b.q),
                                   0 - ((Low(t) % 1024) + 1024 * (a.r + 3125 * b.r))))
                ELSE DateAt(TimeOf(IntOf(b.q),
                                   (Low(t) % 1024) + 1024 * (a.r + 3125 * b.r)))
              : b \in {DivSmall(a.q, 27)} } : TRUE)
           : a \in {DivSmall(Shr(t, 10).q, 3125)} } : TRUE)
        : t \in {IF x.e >= 0 THEN Shl(x.m, x.e) ELSE Shr(x.m, 0 - x.e).q} } : TRUE)

\* the integer part of a finite number and whether the number has a
\* fraction, or big when it is 2^30 or more on either side and so beyond
\* every bound of MakeDay
ToInteger(x) ==
  IF BitLen(x.m) + x.e > IntegerBits THEN [big |-> TRUE, n |-> 0, frac |-> FALSE]
  ELSE (CHOOSE val \in {
          [big |-> FALSE, n |-> IF x.neg THEN 0 - IntOf(w.q) ELSE IntOf(w.q),
           frac |-> w.sticky]
        : w \in {IF x.e >= 0 THEN [q |-> Shl(x.m, x.e), sticky |-> FALSE] ELSE Shr(x.m, 0 - x.e)} } : TRUE)

\* a number is beyond the bound max on either side
Beyond(w, max) ==
  \/ w.big \/ w.n > max \/ w.n < 0 - max
  \/ (w.frac /\ (w.n = max \/ w.n = 0 - max))

\* new Date(year, monthIndex, day) of three numbers: local time, the years
\* 0..99 are 1900..1999
NewDateFields(year, monthIndex, day, host) ==
  IF ~isFinite(year) \/ ~isFinite(monthIndex) \/ ~isFinite(day) THEN InvalidDate
  ELSE (CHOOSE val \in {
          (CHOOSE val \in {
             (CHOOSE val \in {
                IF d.big \/ Beyond(m, MaxMonth) THEN InvalidDate
                ELSE IF ~y.big /\ y.n >= 0 /\ y.n <= 99
                THEN DateAt(ToUTC(host, TimeOf(MakeDay(1900 + y.n, m.n, d.n), 0)))
                ELSE IF Beyond(y, MaxYear) THEN InvalidDate
                ELSE DateAt(ToUTC(host, TimeOf(MakeDay(y.n, m.n, d.n), 0)))
              : d \in {ToInteger(day)} } : TRUE)
           : m \in {ToInteger(monthIndex)} } : TRUE)
        : y \in {ToInteger(year)} } : TRUE)

(***************************************************************************)
(* new Date(string): the date parser of the engine.  The string is cut in  *)
(* tokens; the ISO form (YYYY[-MM[-DD]][THH:mm[:ss[.sss]][Z|+hh:mm]]) is   *)
(* tried first and what it leaves is read by the legacy parser.            *)
(***************************************************************************)
Token(k, n, len, t, end) == [k |-> k, n |-> n, len |-> len, t |-> t, end |-> end]

\* the characters below "A": U+0000..U+0040
BelowA ==
  {"U+0000", "U+0001", "U+0002", "U+0003", "U+0004", "U+0005", "U+0006", "U+0007",
   "U+0008", "\t", "\n", "U+000B", "\f", "\r", "U+000E", "U+000F",
   "U+0010", "U+0011", "U+0012", "U+0013", "U+0014", "U+0015", "U+0016", "U+0017",
   "U+0018", "U+0019", "U+001A", "U+001B", "U+001C", "U+001D", "U+001E", "U+001F",
   " ", "!", "\"", "#", "$", "%", "&", "'", "(", ")", "*", "+", ",", "-", ".", "/",
   "0", "1", "2", "3", "4", "5", "6", "7", "8", "9", ":", ";", "<", "=", ">", "?", "@"}

Symbols == {":", "-", "+", ".", ")"}

\* the white space that ends a line
LineTerminators == {"\n", "\r", "U+2028", "U+2029"}

\* a character of a word: "A" or above, and no white space other than one
\* that ends a line
IsWordChar(c) == c \notin BelowA /\ (~IsSpace(c) \/ c \in LineTerminators)

\* the input ends at position k of s: the string ends there or holds the
\* character U+0000
IsEnd(s, k) == k > Len(s) \/ s[k] = "U+0000"

\* first position >= k of s that holds no character of a word
WordEnd(s, k) ==
  IF k > Len(s) THEN k
  ELSE CHOOSE j \in k..(Len(s) + 1) :
         (j = Len(s) + 1 \/ ~IsWordChar(s[j])) /\ \A i \in k..(j - 1) : IsWordChar(s[i])

\* the position after the parentheses that open at k
RECURSIVE SkipParentheses(_, _, _)
SkipParentheses(s, k, balance) ==
  LET b == IF s[k] = ")" THEN balance - 1
           ELSE IF s[k] = "(" THEN balance + 1 ELSE balance
  IN IF b > 0 /\ ~IsEnd(s, k + 1) THEN SkipParentheses(s, k + 1, b) ELSE k + 1

MaxSignificantDigits == 9

RECURSIVE Pow10(_)
Pow10(n) == IF n <= 0 THEN 1 ELSE 10 * Pow10(n - 1)

\* ReadUnsignedNumeral: the leading zeros are skipped and the first nine
\* digits after them make the number
UnsignedNumeral(s, k, end) ==
  LET z == ZerosEnd(s, k)
      e == IF end - z > MaxSignificantDigits THEN z + MaxSignificantDigits ELSE end
  IN DigitsValue(s, z, e)

AsciiUpperLetters ==
  <<"A","B","C","D","E","F","G","H","I","J","K","L","M",
    "N","O","P","Q","R","S","T","U","V","W","X","Y","Z">>

AsciiLowerLetters ==
  <<"a","b","c","d","e","f","g","h","i","j","k","l","m",
    "n","o","p","q","r","s","t","u","v","w","x","y","z">>

\* AsciiAlphaToLower (c | 0x20): a letter of A..Z in lower case; no other
\* character becomes a letter of a..z, so it is left as it is
AsciiLower(c) ==
  IF \E i \in 1..26 : AsciiUpperLetters[i] = c
  THEN AsciiLowerLetters[CHOOSE i \in 1..26 : AsciiUpperLetters[i] = c]
  ELSE c

MonthNames ==
  << <<"j","a","n">>, <<"f","e","b">>, <<"m","a","r">>, <<"a","p","r">>,
     <<"m","a","y">>, <<"j","u","n">>, <<"j","u","l">>, <<"a","u","g">>,
     <<"s","e","p">>, <<"o","c","t">>, <<"n","o","v">>, <<"d","e","c">> >>

\* the other keywords with their kind and value: AM and PM with the hours
\* they add, the time zones with their hours from UTC, and the T between
\* date and time
Keywords ==
  << << <<"a","m">>, "ampm", 0 >>,     << <<"p","m">>, "ampm", 12 >>,
     << <<"u","t">>, "tz", 0 >>,       << <<"u","t","c">>, "tz", 0 >>,
     << <<"z">>, "tz", 0 >>,           << <<"g","m","t">>, "tz", 0 >>,
     << <<"c","d","t">>, "tz", -5 >>,  << <<"c","s","t">>, "tz", -6 >>,
     << <<"e","d","t">>, "tz", -4 >>,  << <<"e","s","t">>, "tz", -5 >>,
     << <<"m","d","t">>, "tz", -6 >>,  << <<"m","s","t">>, "tz", -7 >>,
     << <<"p","d","t">>, "tz", -7 >>,  << <<"p","s","t">>, "tz", -8 >>,
     << <<"t">>, "sep", 0 >> >>

\* the token of the word s[k..end-1]: a month by its first three letters,
\* another keyword by all its letters, else a word of no kind
Keyword(s, k, end) ==
  LET len == end - k
      pre == [i \in 1..(IF len < 3 THEN len ELSE 3) |-> AsciiLower(s[k + i - 1])]
  IN IF \E i \in 1..12 : MonthNames[i] = pre
     THEN Token("word", CHOOSE i \in 1..12 : MonthNames[i] = pre, len, "month", end)
     ELSE IF len <= 3 /\ \E i \in 1..Len(Keywords) : Keywords[i][1] = pre
     THEN LET e == Keywords[CHOOSE i \in 1..Len(Keywords) : Keywords[i][1] = pre]
          IN Token("word", e[3], len, e[2], end)
     ELSE Token("word", 0, len, "none", end)

\* the token of s at position k
Scan(s, k) ==
  IF IsEnd(s, k) THEN Token("end", 0, 0, "", k)
  ELSE IF IsDigit(s[k])
  THEN LET end == DigitsEnd(s, k)
       IN Token("num", UnsignedNumeral(s, k, end), end - k, "", end)
  ELSE IF s[k] \in Symbols THEN Token("sym", 0, 1, s[k], k + 1)
  ELSE IF IsWordChar(s[k]) THEN Keyword(s, k, WordEnd(s, k))
  ELSE IF IsSpace(s[k]) THEN Token("ws", 0, 1, "", k + 1)
  ELSE IF s[k] = "(" THEN Token("unknown", 0, 0, "", SkipParentheses(s, k, 0))
  ELSE Token("unknown", 0, 1, "", k + 1)

\* the tokens of s from position k, the end of input last
RECURSIVE Tokens(_, _)
Tokens(s, k) ==
  (CHOOSE val \in {
     IF t.k = "end" THEN <<t>> ELSE <<t>> \o Tokens(s, t.end)
   : t \in {Scan(s, k)} } : TRUE)

TokenAt(toks, i) == IF i <= Len(toks) THEN toks[i] ELSE toks[Len(toks)]

IsSymbol(t, c) == t.k = "sym" /\ t.t = c

IsAsciiSign(t) == IsSymbol(t, "+") \/ IsSymbol(t, "-")

AsciiSign(t) == IF t.t = "-" THEN -1 ELSE 1

IsFixedNumber(t, len) == t.k = "num" /\ t.len = len

IsKeywordZ(t) == t.k = "word" /\ t.t = "tz" /\ t.len = 1

IsMonth(n) == n >= 1 /\ n <= 12

IsDay(n) == n >= 1 /\ n <= 31

IsHour(n) == n >= 0 /\ n <= 23

IsHour12(n) == n >= 0 /\ n <= 12

IsMinute(n) == n >= 0 /\ n <= 59

IsSecond(n) == n >= 0 /\ n <= 59

IsMillisecond(n) == n >= 0 /\ n <= 999

\* the first three digits of a fraction of a second
ReadMilliseconds(t) ==
  IF t.len = 1 THEN t.n * 100
  ELSE IF t.len = 2 THEN t.n * 10
  ELSE IF t.len > 3
  THEN t.n \div Pow10((IF t.len > MaxSignificantDigits
                       THEN MaxSignificantDigits ELSE t.len) - 3)
  ELSE t.n

(***************************************************************************)
(* The state of the parser: bad (the string is no date), c and nx (the     *)
(* token at hand and the next one to read), day (up to three numbers),     *)
(* time (up to four), named (the month read by name, 0 for none), ampm     *)
(* (the hours of AM or PM, -1 for none), sign, hour and minute of the time *)
(* zone (0, -1 and -1 for none), hasNum (a number has been read) and iso   *)
(* (the ISO form was read to the end).                                     *)
(***************************************************************************)
ParserStart ==
  [bad |-> FALSE, c |-> 1, nx |-> 1, day |-> <<>>, time |-> <<>>, named |-> 0,
   ampm |-> -1, sign |-> 0, hour |-> -1, minute |-> -1, hasNum |-> FALSE,
   iso |-> FALSE]

Invalid(st) == [st EXCEPT !.bad = TRUE]

\* the parse goes on with the legacy parser at token c, the token after it
\* being nx
Unhandled(st, c, nx) ==
  [st EXCEPT !.c = c, !.nx = nx, !.hasNum = st.day # <<>>]

\* the ISO form was read to the end: a date without time is in UTC
ParsedES5(st) ==
  [st EXCEPT !.iso = TRUE, !.c = st.nx,
             !.sign   = IF st.hour = -1 /\ st.time = <<>> THEN 1 ELSE @,
             !.hour   = IF st.hour = -1 /\ st.time = <<>> THEN 0 ELSE @,
             !.minute = IF st.hour = -1 /\ st.time = <<>> THEN 0 ELSE @]

\* the time zone and the end of input after the time of the ISO form;
\* i is the next token
ES5Zone(toks, st, i) ==
  LET t0 == TokenAt(toks, i)
      t1 == TokenAt(toks, i + 1)
      t2 == TokenAt(toks, i + 2)
      t3 == TokenAt(toks, i + 3)
      AtEnd(x, j) == IF TokenAt(toks, j).k = "end"
                     THEN ParsedES5([x EXCEPT !.nx = j]) ELSE Invalid(x)
  IN IF IsKeywordZ(t0)
     THEN AtEnd([st EXCEPT !.sign = 1, !.hour = 0, !.minute = 0], i + 1)
     ELSE IF IsAsciiSign(t0)
     THEN IF IsFixedNumber(t1, 4)
          THEN IF IsHour(t1.n \div 100) /\ IsMinute(t1.n % 100)
               THEN AtEnd([st EXCEPT !.sign = AsciiSign(t0), !.hour = t1.n \div 100,
                                     !.minute = t1.n % 100], i + 2)
               ELSE Invalid(st)
          ELSE IF /\ IsFixedNumber(t1, 2) /\ IsHour(t1.n)
                  /\ IsSymbol(t2, ":")
                  /\ IsFixedNumber(t3, 2) /\ IsMinute(t3.n)
          THEN AtEnd([st EXCEPT !.sign = AsciiSign(t0), !.hour = t1.n,
                                !.minute = t3.n], i + 4)
          ELSE Invalid(st)
     ELSE AtEnd(st, i)

\* the time of the ISO form after its T; i is the next token
ES5Time(toks, st, i) ==
  LET hh   == TokenAt(toks, i)
      mm   == TokenAt(toks, i + 2)
      ss   == TokenAt(toks, i + 4)
      ms   == TokenAt(toks, i + 6)
      is24 == hh.n = 24
  IN IF ~(IsFixedNumber(hh, 2) /\ hh.n >= 0 /\ hh.n <= 24) THEN Invalid(st)
     ELSE IF ~IsSymbol(TokenAt(toks, i + 1), ":") THEN Invalid(st)
     ELSE IF ~(IsFixedNumber(mm, 2) /\ IsMinute(mm.n) /\ ~(is24 /\ mm.n > 0))
     THEN Invalid(st)
     ELSE IF ~IsSymbol(TokenAt(toks, i + 3), ":")
     THEN ES5Zone(toks, [st EXCEPT !.time = <<hh.n, mm.n>>], i + 3)
     ELSE IF ~(IsFixedNumber(ss, 2) /\ IsSecond(ss.n) /\ ~(is24 /\ ss.n > 0))
     THEN Invalid(st)
     ELSE IF ~IsSymbol(TokenAt(toks, i + 5), ".")
     THEN ES5Zone(toks, [st EXCEPT !.time = <<hh.n, mm.n, ss.n>>], i + 5)
     ELSE IF ~(ms.k = "num" /\ ~(is24 /\ ms.n > 0)) THEN Invalid(st)
     ELSE ES5Zone(toks, [st EXCEPT !.time = <<hh.n, mm.n, ss.n, ReadMilliseconds(ms)>>],
                  i + 7)

\* after the date of the ISO form; i is the next token
ES5AfterDate(toks, st, i) ==
  LET t == TokenAt(toks, i)
  IN IF t.k = "word" /\ t.t = "sep" THEN ES5Time(toks, st, i + 1)
     ELSE IF t.k = "end" THEN ParsedES5([st EXCEPT !.nx = i])
     ELSE Unhandled(st, i, i + 1)

\* after the year of the ISO form; i is the next token
ES5AfterYear(toks, st, i) ==
  LET mm == TokenAt(toks, i + 1)
      dd == TokenAt(toks, i + 3)
  IN IF ~IsSymbol(TokenAt(toks, i), "-") THEN ES5AfterDate(toks, st, i)
     ELSE IF ~(IsFixedNumber(mm, 2) /\ IsMonth(mm.n)) THEN Unhandled(st, i + 1, i + 2)
     ELSE IF ~IsSymbol(TokenAt(toks, i + 2), "-")
     THEN ES5AfterDate(toks, [st EXCEPT !.day = Append(@, mm.n)], i + 2)
     ELSE IF ~(IsFixedNumber(dd, 2) /\ IsDay(dd.n))
     THEN Unhandled([st EXCEPT !.day = Append(@, mm.n)], i + 3, i + 4)
     ELSE ES5AfterDate(toks, [st EXCEPT !.day = Append(Append(@, mm.n), dd.n)], i + 4)

\* ParseES5DateTime: the state after the ISO form, with the token at which
\* the legacy parser goes on when the form was not read to the end
ParseES5DateTime(toks) ==
  LET t1 == TokenAt(toks, 1)
      t2 == TokenAt(toks, 2)
  IN IF IsAsciiSign(t1)
     THEN IF ~IsFixedNumber(t2, 6) THEN Unhandled(ParserStart, 1, 2)
          ELSE IF AsciiSign(t1) < 0 /\ t2.n = 0 THEN Unhandled(ParserStart, 1, 3)
          ELSE ES5AfterYear(toks, [ParserStart EXCEPT !.day = <<AsciiSign(t1) * t2.n>>], 3)
     ELSE IF IsFixedNumber(t1, 4)
     THEN ES5AfterYear(toks, [ParserStart EXCEPT !.day = <<t1.n>>], 2)
     ELSE Unhandled(ParserStart, 1, 2)

\* TimeComposer::IsExpecting: n can be the next part of a time that has
\* its hour
TimeIsExpecting(time, n) ==
  \/ Len(time) = 1 /\ IsMinute(n)
  \/ Len(time) = 2 /\ IsSecond(n)
  \/ Len(time) = 3 /\ IsMillisecond(n)

\* TimeComposer::AddFinal: n is the last part of the time
AddFinal(time, n) ==
  IF Len(time) >= 4 THEN time
  ELSE Append(time, n) \o SubSeq(<<0, 0, 0>>, 1, 3 - Len(time))

\* the token at hand is read, with consumed tokens after it
Advance(st, consumed) ==
  [st EXCEPT !.c = st.nx + consumed, !.nx = st.nx + consumed + 1]

\* one turn of the loop of the legacy parser on the token at hand
LegacyStep(toks, st) ==
  LET token == TokenAt(toks, st.c)
      p1    == TokenAt(toks, st.nx)
      p2    == TokenAt(toks, st.nx + 1)
      n     == token.n
      dot   == IF IsSymbol(p1, ".") THEN 1 ELSE 0
      after == TokenAt(toks, st.nx + dot)
      read  == [st EXCEPT !.hasNum = TRUE]
  IN IF token.k = "num"
     THEN IF IsSymbol(p1, ":")
          THEN IF IsSymbol(p2, ":")
               THEN IF st.time # <<>> THEN Invalid(st)
                    ELSE Advance([read EXCEPT !.time = <<n, 0>>], 2)
               ELSE IF Len(st.time) >= 4 THEN Invalid(st)
               ELSE Advance([read EXCEPT !.time = Append(@, n)],
                            IF IsSymbol(p2, ".") THEN 2 ELSE 1)
          ELSE IF dot = 1 /\ TimeIsExpecting(st.time, n)
          THEN IF p2.k # "num" THEN Invalid(st)
               ELSE Advance([read EXCEPT !.time = AddFinal(Append(@, n), ReadMilliseconds(p2))], 2)
          ELSE IF st.hour # -1 /\ st.minute = -1 /\ IsMinute(n)
          THEN Advance([read EXCEPT !.minute = n], dot)
          ELSE IF TimeIsExpecting(st.time, n)
          THEN IF after.k \in {"end", "ws"} \/ IsKeywordZ(after) \/ IsAsciiSign(after)
               THEN Advance([read EXCEPT !.time = AddFinal(@, n)], dot)
               ELSE Invalid(st)
          ELSE IF Len(st.day) >= 3 THEN Invalid(st)
          ELSE Advance([read EXCEPT !.day = Append(@, n)],
                       dot + (IF IsSymbol(after, "-") THEN 1 ELSE 0))
     ELSE IF token.k = "word"
     THEN IF token.t = "ampm" /\ st.time # <<>>
          THEN Advance([st EXCEPT !.ampm = token.n], 0)
          ELSE IF token.t = "month"
          THEN Advance([st EXCEPT !.named = token.n], IF IsSymbol(p1, "-") THEN 1 ELSE 0)
          ELSE IF token.t = "tz" /\ st.hasNum
          THEN Advance([st EXCEPT !.sign = IF token.n < 0 THEN -1 ELSE 1,
                                  !.hour = Magnitude(token.n), !.minute = 0], 0)
          ELSE IF st.hasNum \/ p1.k = "num" THEN Invalid(st)
          ELSE Advance(st, 0)
     ELSE IF IsAsciiSign(token) /\ ((st.hour = 0 /\ st.minute = 0) \/ st.time # <<>>)
     THEN LET num == p1.k = "num"
              len == IF num THEN p1.len ELSE 0
              v   == IF num THEN p1.n ELSE 0
              k   == IF num THEN 1 ELSE 0
              z   == [read EXCEPT !.sign = AsciiSign(token)]
          IN IF IsSymbol(TokenAt(toks, st.nx + k), ":")
             THEN Advance([z EXCEPT !.hour = v, !.minute = -1], k)
             ELSE IF len = 1 \/ len = 2
             THEN Advance([z EXCEPT !.hour = v, !.minute = 0], k)
             ELSE IF len = 3 \/ len = 4
             THEN Advance([z EXCEPT !.hour = v \div 100, !.minute = v % 100], k)
             ELSE Invalid(st)
     ELSE IF (IsAsciiSign(token) \/ IsSymbol(token, ")")) /\ st.hasNum
     THEN Invalid(st)
     ELSE Advance(st, 0)

\* the loop of the legacy parser, to the end of input
RECURSIVE LegacyLoop(_, _)
LegacyLoop(toks, st) ==
  IF st.bad \/ TokenAt(toks, st.c).k = "end" THEN st
  ELSE (CHOOSE val \in {
          LegacyLoop(toks, after)
        : after \in {LegacyStep(toks, st)} } : TRUE)

\* TimeZoneComposer::Write: hour * 3600 + minute * 60, a natural number of
\* which the low 32 binary digits are kept
OffsetSeconds(hour, minute) ==
  (CHOOSE val \in {
     [high |-> (At(total, 3) \div 2) % 2 = 1,
      low  |-> At(total, 1) + Base * At(total, 2) + Base * Base * (At(total, 3) % 2)]
   : total \in {MulSmall(NatOf(hour), 3600, minute * 60)} } : TRUE)

\* DayComposer::Write, TimeComposer::Write and TimeZoneComposer::Write, and
\* the date they give: the numbers of the day are year, month and day when
\* the first is no day of a month or the form is ISO, else month, day and
\* year; a month read by name leaves the day and the year.  A missing part
\* of the day is 1.  Outside the ISO form the years 0..49 are 2000..2049
\* and 50..99 are 1950..1999.  The offset of a time zone is no more than
\* the largest small integer; a date without one is in local time
WriteDate(st, host) ==
  LET comp   == st.day \o SubSeq(<<1, 1, 1>>, 1, 3 - Len(st.day))
      ymd    == IF st.named = 0
                THEN IF st.iso \/ ~IsDay(comp[1])
                     THEN <<comp[1], comp[2], comp[3]>>
                     ELSE <<comp[3], comp[1], comp[2]>>
                ELSE IF ~IsDay(comp[1])
                     THEN <<comp[1], st.named, comp[2]>>
                     ELSE <<comp[2], st.named, comp[1]>>
      year   == IF ~st.iso /\ ymd[1] >= 0 /\ ymd[1] <= 49 THEN ymd[1] + 2000
                ELSE IF ~st.iso /\ ymd[1] >= 50 /\ ymd[1] <= 99 THEN ymd[1] + 1900
                ELSE ymd[1]
      time   == st.time \o SubSeq(<<0, 0, 0, 0>>, 1, 4 - Len(st.time))
      hour   == IF st.ampm # -1 THEN (time[1] % 12) + st.ampm ELSE time[1]
      timeOk == /\ st.ampm # -1 => IsHour12(time[1])
                /\ \/ /\ IsHour(hour) /\ IsMinute(time[2]) /\ IsSecond(time[3])
                      /\ IsMillisecond(time[4])
                   \/ hour = 24 /\ time[2] = 0 /\ time[3] = 0 /\ time[4] = 0
      zone   == OffsetSeconds(IF st.hour = -1 THEN 0 ELSE st.hour,
                              IF st.minute = -1 THEN 0 ELSE st.minute)
      zoneOk == st.sign = 0 \/ (~zone.high /\ zone.low <= host.smi)
      offset == st.sign * zone.low
      ms     == hour * 3600000 + time[2] * 60000 + time[3] * 1000 + time[4]
  IN IF st.bad \/ Len(st.day) < 1 THEN InvalidDate
     ELSE IF ~IsMonth(ymd[2]) \/ ~IsDay(ymd[3]) \/ ~timeOk \/ ~zoneOk THEN InvalidDate
     ELSE IF year < 0 - MaxYear \/ year > MaxYear THEN InvalidDate
     ELSE IF st.sign = 0
     THEN DateAt(ToUTC(host, TimeOf(MakeDay(year, ymd[2] - 1, ymd[3]), ms)))
     ELSE DateAt(TimeOf(MakeDay(year, ymd[2] - 1, ymd[3]) - (offset \div SecPerDay),
                        ms - (offset % SecPerDay) * 1000))

\* new Date(s) of a string
NewDateString(s, host) ==
  (CHOOSE val \in {
     (CHOOSE val \in {
        WriteDate(LegacyLoop(toks, st), host)
      : st \in {ParseES5DateTime(toks)} } : TRUE)
   : toks \in {Tokens(s, 1)} } : TRUE)


(***************************************************************************)
(* Categories and the built-in keyword map                                 *)
(***************************************************************************)
Undefined == "undefined"

CATEGORIES ==
  <<"Food", "Transport", "Shopping", "Entertainment", "Health",
    "Utilities", "Income", "Education", "Feira", "Other">>

Category == {CATEGORIES[i] : i \in 1..Len(CATEGORIES)}

\* Object.entries(DEFAULT_CATEGORY_MAP): insertion order of the literal
DEFAULT_CATEGORY_MAP ==
  << << <<"u","b","e","r">>, "Transport" >>,
     << <<"b","o","l","t">>, "Transport" >>,
     << <<"c","o","n","t","i","n","e","n","t","e">>, "Food" >>,
     << <<"p","i","n","g","o"," ","d","o","c","e">>, "Food" >>,
     << <<"l","i","d","l">>, "Food" >>,
     << <<"a","u","c","h","a","n">>, "Food" >>,
     << <<"n","e","t","f","l","i","x">>, "Entertainment" >>,
     << <<"s","p","o","t","i","f","y">>, "Entertainment" >>,
     << <<"a","m","a","z","o","n">>, "Shopping" >>,
     << <<"z","a","r","a">>, "Shopping" >>,
     << <<"i","k","e","a">>, "Shopping" >>,
     << <<"e","d","p">>, "Utilities" >>,
     << <<"g","a","l","p">>, "Utilities" >>,
     << <<"v","o","d","a","f","o","n","e">>, "Utilities" >>,
     << <<"s","a","l","a","r","y">>, "Income" >>,
     << <<"v","e","n","c","i","m","e","n","t","o">>, "Income" >>,
     << <<"r","e","f","e","i","c","a","o">>, "Income" >> >>

(***************************************************************************)
(* Rule engine                                                             *)
(***************************************************************************)
\* mutant: a rule with an empty pattern matches nothing
RuleMatchesSkipsEmpty(desc, rule) ==
  LET pattern == toLowerCase(rule.pattern)
  IN /\ pattern # Str0
     /\ IF rule.type = "exact" THEN desc = pattern ELSE startsWith(desc, pattern)

\* mutant: the pattern is compared as it was typed
RuleMatchesCaseSensitive(desc, rule) ==
  LET pattern == rule.pattern
  IN IF rule.type = "exact" THEN desc = pattern ELSE startsWith(desc, pattern)

\* the match test of one rule against the lower-cased description
RuleMatches(desc, rule) ==
  LET pattern == toLowerCase(rule.pattern)
  IN IF rule.type = "exact" THEN desc = pattern ELSE startsWith(desc, pattern)

\* mutant: a rule that defines shouldIgnore flips the flag
RuleResultFlipsIgnored(tx, rule) ==
  [tx EXCEPT
     !.category = IF rule.targetCategory # Undefined
                  THEN rule.targetCategory ELSE tx.category,
     !.ignored  = IF rule.shouldIgnore # Undefined
                  THEN (IF tx.ignored = "true" THEN "false" ELSE "true")
                  ELSE tx.ignored]

\* mutant: a rule sets the category of uncategorised transactions only
RuleResultKeepsCategorised(tx, rule) ==
  [tx EXCEPT
     !.category = IF rule.targetCategory # Undefined /\ tx.category = "Other"
                  THEN rule.targetCategory ELSE tx.category,
     !.ignored  = IF rule.shouldIgnore # Undefined
                  THEN rule.shouldIgnore ELSE tx.ignored]

\* mutant: a rule sets the flag of the transactions nobody toggled
RuleResultKeepsToggled(tx, rule) ==
  [tx EXCEPT
     !.category = IF rule.targetCategory # Undefined
                  THEN rule.targetCategory ELSE tx.category,
     !.ignored  = IF rule.shouldIgnore # Undefined /\ tx.ignored = Undefined
                  THEN rule.shouldIgnore ELSE tx.ignored]

\* mutant: a rule that leaves shouldIgnore undefined clears the flag
RuleResultDefaultsIgnored(tx, rule) ==
  [tx EXCEPT
     !.category = IF rule.targetCategory # Undefined
                  THEN rule.targetCategory ELSE tx.category,
     !.ignored  = IF rule.shouldIgnore # Undefined
                  THEN rule.shouldIgnore ELSE "false"]

\* the object returned for a matching rule
RuleResult(tx, rule) ==
  [tx EXCEPT
     !.category = IF rule.targetCategory # Undefined
                  THEN rule.targetCategory ELSE tx.category,
     !.ignored  = IF rule.shouldIgnore # Undefined
                  THEN rule.shouldIgnore ELSE tx.ignored]

\* mutant: the last matching rule wins
LastMatchIndex(desc, rules) ==
  IF \E i \in 1..Len(rules) : RuleMatches(desc, rules[i])
  THEN CHOOSE i \in 1..Len(rules) :
         /\ RuleMatches(desc, rules[i])
         /\ \A j \in (i + 1)..Len(rules) : ~RuleMatches(desc, rules[j])
  ELSE 0

\* index of the first rule of rules that matches desc, 0 when none does
FirstMatchIndex(desc, rules) ==
  IF \E i \in 1..Len(rules) : RuleMatches(desc, rules[i])
  THEN CHOOSE i \in 1..Len(rules) :
         /\ RuleMatches(desc, rules[i])
         /\ \A j \in 1..(i - 1) : ~RuleMatches(desc, rules[j])
  ELSE 0

\* mutant: the keyword declared last wins
LastKeywordIndex(desc) ==
  IF \E k \in 1..Len(DEFAULT_CATEGORY_MAP) : includes(desc, DEFAULT_CATEGORY_MAP[k][1])
  THEN CHOOSE k \in 1..Len(DEFAULT_CATEGORY_MAP) :
         /\ includes(desc, DEFAULT_CATEGORY_MAP[k][1])
         /\ \A j \in (k + 1)..Len(DEFAULT_CATEGORY_MAP) :
              ~includes(desc, DEFAULT_CATEGORY_MAP[j][1])
  ELSE 0

\* index of the first keyword of the map contained in desc, 0 when none is
FirstKeywordIndex(desc) ==
  IF \E k \in 1..Len(DEFAULT_CATEGORY_MAP) : includes(desc, DEFAULT_CATEGORY_MAP[k][1])
  THEN CHOOSE k \in 1..Len(DEFAULT_CATEGORY_MAP) :
         /\ includes(desc, DEFAULT_CATEGORY_MAP[k][1])
         /\ \A j \in 1..(k - 1) : ~includes(desc, DEFAULT_CATEGORY_MAP[j][1])
  ELSE 0

\* mutant: the default map also clears the ignored flag
KeywordFallbackClearsIgnored(tx, desc) ==
  IF tx.category = "Other" /\ FirstKeywordIndex(desc) # 0
  THEN [tx EXCEPT !.category = DEFAULT_CATEGORY_MAP[FirstKeywordIndex(desc)][2],
                  !.ignored = "false"]
  ELSE tx

\* mutant: the default map is consulted whatever the category
KeywordFallbackAnyCategory(tx, desc) ==
  IF FirstKeywordIndex(desc) # 0
  THEN [tx EXCEPT !.category = DEFAULT_CATEGORY_MAP[FirstKeywordIndex(desc)][2]]
  ELSE tx

\* step 2 of applyRulesToTransaction: the default map
KeywordFallback(tx, desc) ==
  IF tx.category = "Other" /\ FirstKeywordIndex(desc) # 0
  THEN [tx EXCEPT !.category = DEFAULT_CATEGORY_MAP[FirstKeywordIndex(desc)][2]]
  ELSE tx

\* mutant: the default map is consulted after a matching rule too
applyRulesThenKeywords(tx, rules) ==
  LET desc == toLowerCase(tx.description)
      m    == FirstMatchIndex(desc, rules)
  IN IF m # 0 THEN KeywordFallback(RuleResult(tx, rules[m]), desc)
     ELSE KeywordFallback(tx, desc)

applyRulesToTransaction(tx, rules) ==
  (CHOOSE val \in {
     (CHOOSE val \in {
        IF m # 0 THEN RuleResult(tx, rules[m]) ELSE KeywordFallback(tx, desc)
      : m \in {FirstMatchIndex(desc, rules)} } : TRUE)
   : desc \in {toLowerCase(tx.description)} } : TRUE)

(***************************************************************************)
(* Parsers.  ts holds the values Date.now() returns during the call:      *)
(* parseRevolutCSV and parseMillenniumCSV read the clock once for each     *)
(* line they keep, inside transactions.push; parseGenericXLSX reads it     *)
(* once for each row of the sheet, inside json.map and before the filter.  *)
(***************************************************************************)
\* mutant: the rows are collected last first
RECURSIVE FlattenReversed(_)
FlattenReversed(ss) ==
  IF ss = << >> THEN << >> ELSE FlattenReversed(Tail(ss)) \o Head(ss)

\* the value the n-th call of Date.now() returns; a line that is rejected
\* makes no call, and the value standing for its call is used nowhere
Reading(ts, n) == IF n \in DOMAIN ts THEN ts[n] ELSE 0

\* concatenation of a sequence of sequences
RECURSIVE Flatten(_)
Flatten(ss) ==
  (CHOOSE val \in {
     IF s = << >> THEN << >> ELSE Head(s) \o Flatten(Tail(s))
   : s \in {ss} } : TRUE)

\* cols[k] of a JavaScript array (0-based); '' stands for a missing element
\* where the code only tests the element for truthiness or length
Col(cols, k) == cols[k + 1]

\* mutant: a zero amount counts as an outflow
TypeOfSignedZeroExpense(amount) == IF Gt0(amount) THEN "Income" ELSE "Expense"

\* the type of a transaction from its signed raw amount
TypeOfSigned(amount) == IF Lt0(amount) THEN "Expense" ELSE "Income"

\* mutant: an empty column 3 makes the date come from column 4
RevolutRowDateFromColumn4(line, i, t, host) ==
  LET cols == split(line, ",")
  IN IF Len(cols) < 6 THEN << >>
     ELSE LET amount  == parseFloat(Col(cols, 5))
              dateStr == IF Truthy(Col(cols, 3)) THEN Col(cols, 3) ELSE Col(cols, 4)
              desc    == RemoveAll(Col(cols, 4), "\"")
          IN IF isNaN(amount) THEN << >>
             ELSE << [id |-> <<"rev", i, t>>,
                      date |-> NewDateString(dateStr, host),
                      description |-> desc,
                      amount |-> Abs(amount),
                      category |-> "Other",
                      source |-> "Revolut",
                      type |-> TypeOfSigned(amount),
                      ignored |-> Undefined] >>

\* one iteration of the loop of parseRevolutCSV: line i (0-based) of the text
RevolutRow(line, i, t, host) ==
  (CHOOSE val \in {
     IF Len(cols) < 6 THEN << >>
     ELSE (CHOOSE val \in {
             LET dateStr == IF Truthy(Col(cols, 3)) THEN Col(cols, 3) ELSE Col(cols, 2)
                 desc    == RemoveAll(Col(cols, 4), "\"")
             IN IF isNaN(amount) THEN << >>
                ELSE << [id |-> <<"rev", i, t>>,
                         date |-> NewDateString(dateStr, host),
                         description |-> desc,
                         amount |-> Abs(amount),
                         category |-> "Other",
                         source |-> "Revolut",
                         type |-> TypeOfSigned(amount),
                         ignored |-> Undefined] >>
           : amount \in {parseFloat(Col(cols, 5))} } : TRUE)
   : cols \in {split(line, ",")} } : TRUE)

\* the number of iterations of the loop over the lines of a text
Iterations(text) == Len(split(text, "\n")) - 1

\* the loop of parseRevolutCSV reaches transactions.push for the line: it
\* has six columns or more and the sixth parses as a number
RevolutKeeps(line) ==
  (CHOOSE val \in {
     Len(cols) >= 6 /\ ~isNaN(parseFloat(Col(cols, 5)))
   : cols \in {split(line, ",")} } : TRUE)

\* the number of lines among the lines first.. (0-based) up to line i that
\* the loop keeps: the number of calls of Date.now() when line i is pushed
RevolutPushes(lines, first, i) ==
  Cardinality({ j \in first..i : RevolutKeeps(lines[j + 1]) })

\* the loop of parseRevolutCSV over the lines first.. (0-based) of the
\* text: a line that is kept is pushed with the value the clock has at its
\* push, a line that is rejected reads no clock
RevolutLoop(lines, first, ts, host) ==
  Flatten([k \in 1..(Len(lines) - first) |->
             IF RevolutKeeps(lines[first + k])
             THEN RevolutRow(lines[first + k], first + k - 1,
                             Reading(ts, RevolutPushes(lines, first, first + k - 1)), host)
             ELSE << >>])

\* mutant: the loop ends at the first line it rejects
parseRevolutCSVStopsAtRejected(text, ts, host) ==
  (CHOOSE val \in {
     SelectSeq(pushed, LAMBDA tx :
       \A i \in 1..tx.id[2] : RevolutKeeps(split(text, "\n")[i + 1]))
   : pushed \in {RevolutLoop(split(text, "\n"), 1, ts, host)} } : TRUE)

\* mutant: the loop starts at the first line
parseRevolutCSVReadsFirstLine(text, ts, host) ==
  (CHOOSE val \in {
     RevolutLoop(lines, 0, ts, host)
   : lines \in {split(text, "\n")} } : TRUE)

\* for (let i = 1; i < lines.length; i++) over text.split('\n')
parseRevolutCSV(text, ts, host) ==
  (CHOOSE val \in {
     RevolutLoop(lines, 1, ts, host)
   : lines \in {split(text, "\n")} } : TRUE)

\* parseFloat(col?.replace(',', '.') || '0')
MillenniumNumber(col) ==
  LET r == ReplaceFirst(col, ",", ".")
  IN parseFloat(IF Truthy(r) THEN r ELSE <<"0">>)

\* amount: debit > 0 ? debit : credit
MillenniumAmount(debit, credit) == IF Gt0(debit) THEN debit ELSE credit

\* type: debit > 0 ? 'Expense' : 'Income'
MillenniumType(debit) == IF Gt0(debit) THEN "Expense" ELSE "Income"

\* Number(x) of an element of dateStr.split('-'), NaN when it is missing
DatePart(parts, k) == IF k <= Len(parts) THEN NumberOf(parts[k]) ELSE NaN

\* new Date(Number(year), Number(month) - 1, Number(day))
MillenniumDate(dateStr, host) ==
  (CHOOSE val \in {
     (CHOOSE val \in {
        NewDateFields(ymd[1], Plus(ymd[2], Dec(-1, 0)), ymd[3], host)
      : ymd \in {<<DatePart(parts, 3), DatePart(parts, 2), DatePart(parts, 1)>>} } : TRUE)
   : parts \in {split(dateStr, "-")} } : TRUE)

\* one iteration of the loop of parseMillenniumCSV
MillenniumRow(line, i, t, host) ==
  (CHOOSE val \in {
     IF Len(cols) < 5 THEN << >>
     ELSE (CHOOSE val \in {
             (CHOOSE val \in {
                LET dateStr == Col(cols, 0)
                    desc    == Col(cols, 2)
                IN IF ~Truthy(dateStr) \/ isNaN(Plus(debit, credit)) THEN << >>
                   ELSE << [id |-> <<"mil", i, t>>,
                            date |-> MillenniumDate(dateStr, host),
                            description |-> desc,
                            amount |-> MillenniumAmount(debit, credit),
                            category |-> "Other",
                            source |-> "Millennium",
                            type |-> MillenniumType(debit),
                            ignored |-> Undefined] >>
              : credit \in {MillenniumNumber(Col(cols, 4))} } : TRUE)
           : debit \in {MillenniumNumber(Col(cols, 3))} } : TRUE)
   : cols \in {split(line, ";")} } : TRUE)

\* the loop of parseMillenniumCSV reaches transactions.push for the line:
\* it has five columns or more, a date, and a debit and a credit whose sum
\* is a number
MillenniumKeeps(line) ==
  (CHOOSE val \in {
     /\ Len(cols) >= 5
     /\ Truthy(Col(cols, 0))
     /\ ~isNaN(Plus(MillenniumNumber(Col(cols, 3)), MillenniumNumber(Col(cols, 4))))
   : cols \in {split(line, ";")} } : TRUE)

\* the number of lines up to line i (0-based) that the loop keeps
MillenniumPushes(lines, i) ==
  Cardinality({ j \in 1..i : MillenniumKeeps(lines[j + 1]) })

\* for (let i = 1; i < lines.length; i++) over text.split('\n'): a line
\* that is kept is pushed with the value the clock has at its push
parseMillenniumCSV(text, ts, host) ==
  (CHOOSE val \in {
     Flatten([k \in 1..(Len(lines) - 1) |->
                IF MillenniumKeeps(lines[k + 1])
                THEN MillenniumRow(lines[k + 1], k, Reading(ts, MillenniumPushes(lines, k)), host)
                ELSE << >>])
   : lines \in {split(text, "\n")} } : TRUE)

\* a JavaScript value that is undefined, a string or a number
Undef == [def |-> FALSE, num |-> FALSE, s |-> Str0, n |-> NaN]

StrVal(s) == [def |-> TRUE, num |-> FALSE, s |-> s, n |-> NaN]

NumVal(n) == [def |-> TRUE, num |-> TRUE, s |-> Str0, n |-> n]

sUndefined == <<"u","n","d","e","f","i","n","e","d">>

\* String(v)
StringOf(v) ==
  IF ~v.def THEN sUndefined ELSE IF v.num THEN NumberToString(v.n) ELSE v.s

\* new Date(v)
NewDateValue(v, host) ==
  IF ~v.def THEN InvalidDate
  ELSE IF v.num THEN NewDateNumber(v.n) ELSE NewDateString(v.s, host)

\* the largest array index, 2^32 - 2
MaxArrayIndex == <<"4","2","9","4","9","6","7","2","9","4">>

\* a < b for two strings of digits without leading zeros
DigitsLess(a, b) ==
  \/ Len(a) < Len(b)
  \/ /\ Len(a) = Len(b)
     /\ \E k \in 1..Len(a) :
          /\ DigitVal(a[k]) < DigitVal(b[k])
          /\ \A j \in 1..(k - 1) : a[j] = b[j]

\* the property name s is an array index: the decimal form of an integer
\* of 0..2^32 - 2
IsArrayIndex(s) ==
  /\ Len(s) >= 1
  /\ \A k \in 1..Len(s) : IsDigit(s[k])
  /\ Len(s) = 1 \/ s[1] # "0"
  /\ ~DigitsLess(MaxArrayIndex, s)

\* the array indices of a set in ascending order
RECURSIVE Ascending(_)
Ascending(S) ==
  IF S = {} THEN << >>
  ELSE LET least == CHOOSE a \in S : \A b \in S : a = b \/ DigitsLess(a, b)
       IN <<least>> \o Ascending(S \ {least})

\* Object.keys(row) of a row given as a sequence of <<header, value>> pairs:
\* the headers that are array indices in ascending order, then the other
\* headers in the order of the columns
Keys(row) ==
  LET headers == [k \in 1..Len(row) |-> row[k][1]]
  IN Ascending({ headers[k] : k \in { j \in 1..Len(row) : IsArrayIndex(headers[j]) } })
       \o SelectSeq(headers, LAMBDA h : ~IsArrayIndex(h))

\* keys.find(k => words.some(w => k.toLowerCase().includes(w))) || keys[n]
FindKey(keys, words, n) ==
  (CHOOSE val \in {
     (CHOOSE val \in {
        IF found.def /\ Truthy(found.s) THEN found
        ELSE IF n + 1 <= Len(keys) THEN StrVal(keys[n + 1]) ELSE Undef
      : found \in {IF \E k \in 1..Len(keys) : hit[k] THEN StrVal(keys[CHOOSE k \in 1..Len(keys) : hit[k] /\ \A j \in 1..(k - 1) : ~hit[j]]) ELSE Undef} } : TRUE)
   : hit \in {[k \in 1..Len(keys) |-> \E w \in words : includes(toLowerCase(keys[k]), w)]} } : TRUE)

\* row[key]: the cell under the header String(key), undefined when there is none
Cell(row, key) ==
  (CHOOSE val \in {
     IF \E k \in 1..Len(row) : row[k][1] = name
     THEN row[CHOOSE k \in 1..Len(row) : row[k][1] = name][2]
     ELSE Undef
   : name \in {StringOf(key)} } : TRUE)

DateWords == { <<"d","a","t","a">>, <<"d","a","t","e">> }

DescWords == { <<"d","e","s","c">>, <<"i","n","f","o">> }

AmountWords == { <<"v","a","l">>, <<"a","m","o","u","n","t">>, <<"q","u","a","n","t">> }

\* the callback of json.map in parseGenericXLSX: row i (0-based) of the sheet
XlsxRow(row, i, t, host) ==
  (CHOOSE val \in {
     (CHOOSE val \in {
        (CHOOSE val \in {
           [id |-> <<"xls", i, t>>,
            date |-> NewDateValue(Cell(row, key.dateKey), host),
            description |-> StringOf(Cell(row, key.descKey)),
            amount |-> Abs(amount),
            category |-> "Other",
            source |-> "XLSX",
            type |-> TypeOfSigned(amount),
            ignored |-> Undefined]
         : amount \in {parseFloat(ReplaceFirst(StringOf(Cell(row, key.amountKey)), ",", "."))} } : TRUE)
      : key \in {[dateKey |-> FindKey(keys, DateWords, 0), descKey |-> FindKey(keys, DescWords, 1), amountKey |-> FindKey(keys, AmountWords, 2)]} } : TRUE)
   : keys \in {Keys(row)} } : TRUE)

\* json.map(...).filter(t => !isNaN(t.amount) && t.description): the rows of
\* the first sheet mapped, each with a value of the clock, and then filtered
SheetTransactions(rows, ts, host) ==
  SelectSeq([k \in 1..Len(rows) |-> XlsxRow(rows[k], k - 1, ts[k], host)],
            LAMBDA tx : ~isNaN(tx.amount) /\ Truthy(tx.description))

\* a spreadsheet file: the FileReader can read it or not, XLSX.read can
\* decode what was read or throws, and rows is sheet_to_json of its first sheet
Sheet(readable, decodable, rows) ==
  [readable |-> readable, decodable |-> decodable, rows |-> rows]

NoSheet == Sheet(TRUE, TRUE, << >>)

\* the number of times parseGenericXLSX reads the clock
SheetRows(file) == IF file.readable /\ file.decodable THEN Len(file.rows) ELSE 0

\* the promise parseGenericXLSX returns, once the FileReader is done.  The
\* reader has an onload handler and no onerror handler: when the read fails
\* neither resolve nor reject is ever called and the promise stays pending.
\* When XLSX.read throws, the catch rejects the promise.
parseGenericXLSX(file, ts, host) ==
  IF ~file.readable THEN [state |-> "pending", value |-> << >>]
  ELSE IF ~file.decodable THEN [state |-> "rejected", value |-> << >>]
  ELSE [state |-> "fulfilled", value |-> SheetTransactions(file.rows, ts, host)]

(***************************************************************************)
(* State                                                                   *)
(***************************************************************************)
VARIABLES
  transactions,   \* App: useState<Transaction[]>
  autoRules,      \* App: useState<AutoRule[]>
  rulesEffect,    \* App: the useEffect([autoRules]) of the last render has not run yet
  upload,         \* App: the upload in flight (handleFileChange awaiting uploadFileService)
  reads,          \* App (src/App.tsx): the calls of handleFileUpload, each with its FileReader
  isUploading,    \* App: useState(false)
  notification,   \* App: useState(null)
  now,            \* Date.now()
  browser,        \* the host the App runs on: its time zone, the build of its engine
  cTx,            \* rule engine: the transaction given to applyRulesToTransaction
  cRules,         \* rule engine: the rule list given to it
  cOut1,          \* rule engine: applyRulesToTransaction(cTx, cRules)
  cOut2,          \* rule engine: applyRulesToTransaction(cOut1, cRules)
  cPc,            \* rule engine: "in", "once", "twice"
  pFormat,        \* parsers: "Revolut", "Millennium" or "XLSX"
  pText,          \* parsers: the text of a delimited file
  pSheet,         \* parsers: the spreadsheet file given to parseGenericXLSX
  pOut,           \* parsers: the transactions returned
  pClock,         \* parsers: the values Date.now() returned during the call
  pPc,            \* parsers: "in", "done"; "rejected", "pending" for a promise
  sTx,            \* storage: the transaction collection of the App that is persisted
  sRules,         \* storage: the rule list of the App that is persisted
  sItems,         \* localStorage (ff_tx, ff_rules)
  sOutTx,         \* storage: the collection of the App that is mounted again
  sOutRules,      \* storage: the rule list of the App that is mounted again
  sPc             \* storage: "in", "saved", "loaded", "mounted"

appVars == <<transactions, autoRules, rulesEffect, upload, reads, isUploading, notification,
            now, browser>>
classifyVars == <<cTx, cRules, cOut1, cOut2, cPc>>
parseVars == <<pFormat, pText, pSheet, pOut, pClock, pPc>>
storeVars == <<sTx, sRules, sItems, sOutTx, sOutRules, sPc>>
vars == <<transactions, autoRules, rulesEffect, upload, reads, isUploading, notification, now,
          browser, cTx, cRules, cOut1, cOut2, cPc, pFormat, pText, pSheet, pOut, pClock, pPc,
          sTx, sRules, sItems, sOutTx, sOutRules, sPc>>

None == "none"

\* the values Date.now() can return at n readings in a row, the clock
\* being at from before: time has passed, or has not, between two readings
RECURSIVE ClockReadings(_, _)
ClockReadings(n, from) ==
  IF n <= 0 THEN { << >> }
  ELSE UNION { { <<t>> \o q : q \in ClockReadings(n - 1, t) } : t \in from..MaxNow }

\* the notification state: null, or { type, message }; count is the number
\* the message of a successful import starts with
NoNotification == [type |-> "none", message |-> "", count |-> 0]

Notification(type, message, count) == [type |-> type, message |-> message, count |-> count]

\* no upload is in flight
NoUpload == [active |-> FALSE, stage |-> "none",
             file |-> [name |-> Str0, text |-> Str0, readable |-> TRUE, error |-> ""],
             rules |-> << >>, startedAt |-> 0]

(***************************************************************************)
(* Inputs of the rule engine                                               *)
(***************************************************************************)
dEmpty   == Str0
dNet     == <<"N","e","t">>
dNetflix == <<"N","e","t","f","l","i","x">>
dNETFLIX == <<"N","E","T","F","L","I","X">>
dNetSub  == <<"N","e","t","f","l","i","x"," ","S","u","b">>
dEdpUber == <<"e","d","p"," ","U","b","e","r">>
dCafe    == <<"C","a","f","é">>
dCAFE    == <<"C","A","F","É">>

\* descriptions and patterns in Greek capitals and small letters (the small
\* sigma has a form of its own at the end of a word), and with the capital
\* sharp s (U+1E9E) and the small one
dSOUPER  == <<"Σ","Ο","Υ","Π","Ε","Ρ">>
dsouper  == <<"σ","ο","υ","π","ε","ρ">>
dODOS    == <<"Ο","Δ","Ο","Σ">>
dODOS5   == dODOS \o <<" ","5">>
dodos    == <<"ο","δ","ο","σ">>
dSTRASSE == <<"S","T","R","A","ẞ","E"," ","5">>
dstrasse == <<"s","t","r","a","ß","e">>

\* a description that starts with the capital rams horn (U+A7CB), a letter
\* whose lower case (U+0264) came with Unicode 16, and a pattern in that
\* small letter
dRAMS    == <<"Ɤ"," ","u","b","e","r">>
drams    == <<"U+0264">>

Descriptions ==
  {dEmpty, dNet, dNetflix, dNetSub, dEdpUber, dCafe, dSOUPER, dODOS5, dSTRASSE, dRAMS}

Patterns == {dEmpty, dNet, dNETFLIX}

\* the effects of a rule: <<targetCategory, shouldIgnore>>
Rule(p, ty, e) ==
  [id |-> <<"rule", 0>>, pattern |-> p, type |-> ty,
   targetCategory |-> e[1], shouldIgnore |-> e[2]]

RuleInputs ==
  { Rule(p, ty, e) :
      p \in Patterns, ty \in {"exact", "starts_with"},
      e \in { <<"Food", Undefined>>, <<Undefined, "true">> } }
  \cup { Rule(dNet, "starts_with", <<Undefined, Undefined>>),
         Rule(dNet, "starts_with", <<"Transport", "false">>),
         Rule(dNETFLIX, "exact", <<"Transport", "false">>),
         Rule(dCAFE, "exact", <<"Food", Undefined>>),
         Rule(dsouper, "exact", <<"Food", Undefined>>),
         Rule(dODOS, "starts_with", <<"Transport", "false">>),
         Rule(dodos, "starts_with", <<"Food", Undefined>>),
         Rule(dstrasse, "starts_with", <<Undefined, "true">>),
         Rule(drams, "starts_with", <<Undefined, "true">>) }

RECURSIVE SeqsUpTo(_, _)
SeqsUpTo(S, n) ==
  IF n = 0 THEN { << >> }
  ELSE LET shorter == SeqsUpTo(S, n - 1)
       IN shorter \cup { Append(q, x) : q \in {r \in shorter : Len(r) = n - 1}, x \in S }

TxInputs ==
  { [id |-> <<"man", 0, 0>>, date |-> DateOf(2024, 1, 5), description |-> d,
     amount |-> Num(780), category |-> c, source |-> "Manual", type |-> "Expense",
     ignored |-> g] :
      d \in Descriptions, c \in {"Other", "Food"},
      g \in {Undefined, "true"} }

\* a Format A text of one data line, described "Uber Trip", amount -7.80
sUberTripQ == <<"\"","U","b","e","r"," ","T","r","i","p","\"">>

UberTripText ==
  <<"h", ",", "h", "\n">>
    \o <<"\"", ",", ",", ",">>
    \o <<"2","0","2","4","-","0","1","-","0","5">> \o <<",">>
    \o sUberTripQ \o <<",">>
    \o <<"-","7",".","8","0">>

\* the transactions parseRevolutCSV makes of it
ParsedInputs(host) == { parseRevolutCSV(UberTripText, <<0>>, host)[n] :
                          n \in 1..Len(parseRevolutCSV(UberTripText, <<0>>, host)) }

IdleTx == [id |-> <<"man", 0, 0>>, date |-> DateOf(2024, 1, 5), description |-> Str0,
           amount |-> Num(0), category |-> "Other", source |-> "Manual", type |-> "Expense",
           ignored |-> Undefined]

(***************************************************************************)
(* Specification of the rule engine alone                                  *)
(***************************************************************************)
\* the hosts of the specifications: for the parsers a zone west of
\* Greenwich with summer time, one east of it without, and UTC; for storage
\* every zone, in an engine with compressed pointers and in one without
ClassifyHosts == {Host(Lisbon, SmiMaxCompressed)}

ParseHosts ==
  {Host(UTCZone, SmiMaxFull), Host(Azores, SmiMaxCompressed), Host(Tokyo, SmiMaxFull)}

StoreHosts == Hosts

AppHosts == {Host(Lisbon, SmiMaxCompressed)}

AppIdle ==
  /\ transactions = << >>
  /\ autoRules = << >>
  /\ rulesEffect = FALSE
  /\ upload = NoUpload
  /\ reads = << >>
  /\ isUploading = FALSE
  /\ notification = NoNotification
  /\ now = 0

ClassifyIdle ==
  /\ cTx = IdleTx
  /\ cRules = << >>
  /\ cOut1 = IdleTx
  /\ cOut2 = IdleTx
  /\ cPc = "in"

ParseIdle ==
  /\ pFormat = "Revolut"
  /\ pText = Str0
  /\ pSheet = NoSheet
  /\ pOut = << >>
  /\ pClock = << >>
  /\ pPc = "in"

\* localStorage without items: getItem returns null
NoItems == [ff_tx |-> << >>, ff_rules |-> << >>, has_tx |-> FALSE, has_rules |-> FALSE]

StoreIdle ==
  /\ sTx = << >>
  /\ sRules = << >>
  /\ sOutTx = << >>
  /\ sOutRules = << >>
  /\ sPc = "in"

InitClassify ==
  /\ AppIdle
  /\ ParseIdle
  /\ StoreIdle
  /\ sItems = NoItems
  /\ browser \in ClassifyHosts
  /\ cTx \in TxInputs \cup ParsedInputs(browser)
  /\ cRules \in SeqsUpTo(RuleInputs, MaxRuleList)
  /\ cOut1 = cTx
  /\ cOut2 = cTx
  /\ cPc = "in"

\* classification of a transaction (import, manual entry)
Classify ==
  /\ cPc = "in"
  /\ cOut1' = applyRulesToTransaction(cTx, cRules)
  /\ cOut2' = cOut1'
  /\ cPc' = "once"
  /\ UNCHANGED <<cTx, cRules>>
  /\ UNCHANGED appVars
  /\ UNCHANGED parseVars
  /\ UNCHANGED storeVars

\* re-classification of the classified transaction under the same rule list
Reclassify ==
  /\ cPc = "once"
  /\ cOut2' = applyRulesToTransaction(cOut1, cRules)
  /\ cPc' = "twice"
  /\ UNCHANGED <<cTx, cRules, cOut1>>
  /\ UNCHANGED appVars
  /\ UNCHANGED parseVars
  /\ UNCHANGED storeVars

NextClassify == Classify \/ Reclassify

SpecClassify == InitClassify /\ [][NextClassify]_vars

(***************************************************************************)
(* Inputs of the parsers                                                   *)
(***************************************************************************)
\* Array.prototype.join with a one-character separator
RECURSIVE Join(_, _)
Join(ss, c) ==
  IF ss = << >> THEN Str0
  ELSE IF Len(ss) = 1 THEN ss[1]
  ELSE ss[1] \o <<c>> \o Join(Tail(ss), c)

sDate1 == <<"2","0","2","4","-","0","1","-","0","5">>
sDate2 == <<"2","0","2","4","-","0","1","-","0","4">>
sDateB == <<"0","5","-","0","1","-","2","0","2","4">>
\* a date with a time of day, a day past the end of its month, and dates of
\* Format B with such a day and with a year of two digits
sDateTime == sDate1 \o <<" ","1","0",":","3","0",":","0","0">>
sDateFeb30 == <<"2","0","2","4","-","0","2","-","3","0">>
sDateBFeb30 == <<"3","0","-","0","2","-","2","0","2","4">>
\* a time of day, and a day of Format B, that begin in the hour the clocks of
\* the Azores skip in spring; a time with an offset from UTC beyond what some
\* builds of the engine take
sDateGap == <<"2","0","2","4","-","0","3","-","3","1"," ","0","0",":","3","0",":","0","0">>
sDateBGap == <<"3","1","-","0","3","-","2","0","2","4">>
sDateFar == <<"1","/","1","/","2","0","2","4"," ","1","0",":","3","0"," ">>
              \o <<"+","3","0","0","0","0","0",":","0","0">>
sDateB24 == <<"0","5","-","0","1","-","2","4">>
sUberQ == <<"\"","U","b","e","r","\"">>
sPingo == <<"P","i","n","g","o"," ","D","o","c","e">>

\* amount fields of Format A and Format C
SignedFields ==
  { <<"-","7",".","8","0">>, <<"5">>, Str0, <<"x">>, <<"-","0">>, <<" ","1","2",".","3">>,
    <<"1","e","3">>, <<"1",".","2","3","9">>, <<"-">> \o sInfinity }

\* data lines of Format A: six columns, or too few
RevolutLines ==
  { Join(<<Str0, Str0, sDate2, d, desc, a>>, ",") :
      d \in {Str0, sDate1}, desc \in {sUberQ, dNet}, a \in SignedFields }
  \cup { Join(<<Str0, Str0, sDate2, d, dNet, <<"5">> >>, ",") :
           d \in {sDateTime, sDateFeb30, sDateGap, sDateFar} }
  \cup { <<"a", ",", "b">>, Str0 }

DebitFields == { Str0, <<"1","2",",","5","0">>, <<"x">>, <<"-","3",",","0","0">> }

CreditFields == { Str0, <<"7",",","0","0">>, <<"-","5",",","0","0">>, <<"y">> }

\* data lines of Format B: five columns, or too few
MillenniumLines ==
  { Join(<<d, Str0, sPingo, debit, credit>>, ";") :
      d \in {Str0, sDateB}, debit \in DebitFields, credit \in CreditFields }
  \cup { Join(<<d, Str0, sPingo, <<"1","2",",","5","0">>, Str0>>, ";") :
           d \in {sDateBFeb30, sDateB24, sDateBGap} }
  \cup { Join(<<sDateB, Str0, sPingo, debit, Str0>>, ";") :
           debit \in { <<"1",".","2","3","4",",","5","6">>, <<"7",",","0","0","9">>,
                       <<"1","e","2">> } }
  \cup { <<"a", ";", "b">> }

hDate   == <<"D","a","t","e">>
hDesc   == <<"D","e","s","c","r","i","p","t","i","o","n">>
hAmount == <<"A","m","o","u","n","t">>

\* rows of Format C, the cells being strings or numbers: named columns, a
\* row without a description cell, rows whose headers name nothing, and rows
\* with headers that are array indices
XlsxRows ==
  { << <<hDate, StrVal(sDate1)>>, <<hDesc, StrVal(d)>>, <<hAmount, a>> >> :
      d \in {dNet, Str0},
      a \in { StrVal(<<"-","7",",","8","0">>), StrVal(<<"x">>), StrVal(sInfinity),
              NumVal(Dec(5, 0)) } }
  \cup { << <<hDate, StrVal(sDate1)>>, <<hAmount, StrVal(a)>> >> : a \in { <<"-","3">>, <<"4">> } }
  \cup { << <<<<"A">>, StrVal(sDate1)>>, <<<<"B">>, StrVal(dCafe)>>, <<<<"C">>, StrVal(a)>> >> :
           a \in { <<"-","1">>, <<"2">> } }
  \cup { << <<hDate, StrVal(sDate1)>>, <<<<"2","0","2","4">>, StrVal(dNet)>>,
             <<hAmount, StrVal(<<"5">>)>>, <<<<"7">>, StrVal(dCafe)>> >>,
         << <<<<"B">>, StrVal(dNet)>>, <<<<"1","0">>, StrVal(sDate1)>>,
            <<<<"9">>, StrVal(<<"-","3">>)>> >>,
         << <<hDate, NumVal(Dec(45296, 0))>>, <<hDesc, NumVal(Dec(0, 0))>>,
            <<hAmount, NumVal(Dec(-78, -1))>> >> }
  \cup { << <<hAmount, NumVal(Dec(5, 0))>> >> }

\* a well-formed row of Format C: an outflow
RowC ==
  << <<hDate, StrVal(sDate1)>>, <<hDesc, StrVal(dNetflix)>>,
     <<hAmount, StrVal(<<"-","7",",","8","0">>)>> >>

\* a workbook with one row
SheetGood == Sheet(TRUE, TRUE, <<RowC>>)

\* a file that is no workbook: XLSX.read throws
SheetCorrupt == Sheet(TRUE, FALSE, << >>)

\* the workbook of SheetGood, which the FileReader fails to read
SheetUnreadable == Sheet(FALSE, TRUE, <<RowC>>)

SheetsThatFail == {SheetCorrupt, SheetUnreadable}

sHeaderA == <<"h",",","h">>
sHeaderB == <<"h",";","h">>

\* well-formed data rows of Format A and of Format B
sRowA == Join(<<Str0, Str0, sDate2, sDate1, dNet, <<"5">> >>, ",")
sRowB == Join(<<sDateB, Str0, sPingo, <<"1","2",",","5","0">>, Str0>>, ";")

\* first lines: a header, or a data row where the header is expected
FirstLinesA == {sHeaderA, sRowA}
FirstLinesB == {sHeaderB, sRowB}

\* the texts: a header line followed by up to MaxRows data lines
TextsOf(header, lines) ==
  { Join(<<header>> \o q, "\n") : q \in SeqsUpTo(lines, MaxRows) }

(***************************************************************************)
(* Specification of the parsers alone                                      *)
(***************************************************************************)
InitParse ==
  /\ AppIdle
  /\ browser \in ParseHosts
  /\ ClassifyIdle
  /\ StoreIdle
  /\ sItems = NoItems
  /\ pOut = << >>
  /\ pClock = << >>
  /\ pPc = "in"
  /\ \/ /\ pFormat = "Revolut"
        /\ pText \in UNION { TextsOf(h, RevolutLines) : h \in FirstLinesA }
        /\ pSheet = NoSheet
     \/ /\ pFormat = "Millennium"
        /\ pText \in UNION { TextsOf(h, MillenniumLines) : h \in FirstLinesB }
        /\ pSheet = NoSheet
     \/ /\ pFormat = "XLSX"
        /\ pText = Str0
        /\ pSheet \in { Sheet(TRUE, TRUE, rows) : rows \in SeqsUpTo(XlsxRows, MaxRows) }
                     \cup SheetsThatFail

ParseRevolut ==
  /\ pPc = "in" /\ pFormat = "Revolut"
  /\ \E ts \in ClockReadings(RevolutPushes(split(pText, "\n"), 1, Iterations(pText)), now) :
       /\ pOut' = parseRevolutCSV(pText, ts, browser)
       /\ pClock' = ts
  /\ pPc' = "done"
  /\ UNCHANGED <<pFormat, pText, pSheet>>
  /\ UNCHANGED appVars
  /\ UNCHANGED classifyVars
  /\ UNCHANGED storeVars

ParseMillennium ==
  /\ pPc = "in" /\ pFormat = "Millennium"
  /\ \E ts \in ClockReadings(MillenniumPushes(split(pText, "\n"), Iterations(pText)), now) :
       /\ pOut' = parseMillenniumCSV(pText, ts, browser)
       /\ pClock' = ts
  /\ pPc' = "done"
  /\ UNCHANGED <<pFormat, pText, pSheet>>
  /\ UNCHANGED appVars
  /\ UNCHANGED classifyVars
  /\ UNCHANGED storeVars

\* parseGenericXLSX(file) up to the point where its promise is settled, or
\* is left pending for good
ParseXlsx ==
  /\ pPc = "in" /\ pFormat = "XLSX"
  /\ \E ts \in ClockReadings(SheetRows(pSheet), now) :
     \E promise \in {parseGenericXLSX(pSheet, ts, browser)} :
       /\ pOut' = promise.value
       /\ pClock' = ts
       /\ pPc' = IF promise.state = "fulfilled" THEN "done" ELSE promise.state
  /\ UNCHANGED <<pFormat, pText, pSheet>>
  /\ UNCHANGED appVars
  /\ UNCHANGED classifyVars
  /\ UNCHANGED storeVars

NextParse == ParseRevolut \/ ParseMillennium \/ ParseXlsx

SpecParse == InitParse /\ [][NextParse]_vars

(***************************************************************************)
(* Claims about the rule engine (SpecClassify)                             *)
(***************************************************************************)
\* rule i of cRules matches cTx and no rule before it does
IsFirstMatch(i) ==
  /\ RuleMatches(toLowerCase(cTx.description), cRules[i])
  /\ \A j \in 1..(i - 1) : ~RuleMatches(toLowerCase(cTx.description), cRules[j])

NoRuleMatches ==
  \A i \in 1..Len(cRules) : ~RuleMatches(toLowerCase(cTx.description), cRules[i])

\* C1: the category and ignored of the result are those the first rule in
\* list order that matches the lower-cased description gives (its
\* targetCategory and shouldIgnore where defined, the input's otherwise), and
\* the rules after it have no effect: the result is the one obtained with the
\* list cut after that rule.
C1_FirstMatchingRuleDecides ==
  cPc # "in" =>
    \A i \in 1..Len(cRules) :
      IsFirstMatch(i) =>
        /\ cOut1.category = IF cRules[i].targetCategory # Undefined
                            THEN cRules[i].targetCategory ELSE cTx.category
        /\ cOut1.ignored = IF cRules[i].shouldIgnore # Undefined
                           THEN cRules[i].shouldIgnore ELSE cTx.ignored
        /\ cOut1 = applyRulesToTransaction(cTx, SubSeq(cRules, 1, i))

\* an exact rule setting X before a prefix rule setting Y, both matching: X
C1_Witness ==
  /\ cPc = "once"
  /\ Len(cRules) = 2
  /\ cRules[1].type = "exact" /\ cRules[2].type = "starts_with"
  /\ RuleMatches(toLowerCase(cTx.description), cRules[1])
  /\ RuleMatches(toLowerCase(cTx.description), cRules[2])
  /\ cRules[1].targetCategory = "Food" /\ cRules[2].targetCategory = "Transport"
  /\ cOut1.category = "Food"

\* C2: the keyword map acts only when no rule matched and the category is
\* 'Other': with a category other than 'Other' and no matching rule the
\* transaction is returned as it is, and when a rule matched the category is
\* the rule's or the input's, never the map's.
C2_KeywordOnlyWhenOther ==
  cPc # "in" =>
    /\ (cTx.category # "Other" /\ NoRuleMatches) => cOut1 = cTx
    /\ \A i \in 1..Len(cRules) :
         IsFirstMatch(i) => cOut1.category \in {cRules[i].targetCategory, cTx.category}
    /\ cOut1.category # cTx.category /\ NoRuleMatches => cTx.category = "Other"

\* a categorised transaction whose description holds a mapped keyword
C2_Witness ==
  /\ cPc = "once"
  /\ cTx.category = "Food"
  /\ NoRuleMatches
  /\ \E k \in 1..Len(DEFAULT_CATEGORY_MAP) :
       /\ includes(toLowerCase(cTx.description), DEFAULT_CATEGORY_MAP[k][1])
       /\ DEFAULT_CATEGORY_MAP[k][2] # "Food"
  /\ cOut1.category = "Food"

\* C3: classifying the classified transaction again under the same rule list
\* gives the same transaction, field for field.
C3_ClassifyIdempotent == cPc = "twice" => cOut2 = cOut1

\* a second pass over a transaction that the first pass changed by a rule
C3_Witness ==
  /\ cPc = "twice"
  /\ ~NoRuleMatches
  /\ cOut1.category # cTx.category
  /\ cOut1.ignored # cTx.ignored
  /\ cOut2 = cOut1

(***************************************************************************)
(* Claims about the parsers (SpecParse)                                    *)
(***************************************************************************)
\* line i (0-based) of the text parsed
LineOf(i) == split(pText, "\n")[i + 1]

\* the raw signed amount of the row a Format A transaction came from
RawRevolut(tx) == parseFloat(Col(split(LineOf(tx.id[2]), ","), 5))

\* the raw debit and credit of the row a Format B transaction came from
RawDebit(tx) == MillenniumNumber(Col(split(LineOf(tx.id[2]), ";"), 3))

RawCredit(tx) == MillenniumNumber(Col(split(LineOf(tx.id[2]), ";"), 4))

\* the raw signed amount of the row a Format C transaction came from
RawXlsx(tx) ==
  LET row == pSheet.rows[tx.id[2] + 1]
  IN parseFloat(ReplaceFirst(
       StringOf(Cell(row, FindKey(Keys(row), AmountWords, 2))), ",", "."))

\* C4 (the claim as stated): every transaction a parser returns has
\* amount >= 0, whatever the signs of the raw fields of its row.
C4_AmountNonNegative ==
  pPc = "done" =>
    \A n \in 1..Len(pOut) : ~isNaN(pOut[n].amount) /\ ~Lt0(pOut[n].amount)

\* C5: type is 'Expense' exactly when the row is an outflow: raw amount < 0
\* in Format A and Format C, debit > 0 in Format B, where amount is the debit
\* if debit > 0 and the credit otherwise.
C5_TypeFollowsRawDirection ==
  pPc = "done" =>
    \A n \in 1..Len(pOut) :
      LET tx == pOut[n]
      IN /\ tx.type \in {"Expense", "Income"}
         /\ pFormat = "Revolut" => (tx.type = "Expense" <=> Lt0(RawRevolut(tx)))
         /\ pFormat = "XLSX" => (tx.type = "Expense" <=> Lt0(RawXlsx(tx)))
         /\ pFormat = "Millennium" =>
              /\ tx.type = "Expense" <=> Gt0(RawDebit(tx))
              /\ tx.amount = IF Gt0(RawDebit(tx)) THEN RawDebit(tx) ELSE RawCredit(tx)

\* a Format A import with an outflow row and a row that is none
C5_Witness ==
  /\ pPc = "done"
  /\ pFormat = "Revolut"
  /\ \E n \in 1..Len(pOut) : pOut[n].type = "Expense" /\ Lt0(RawRevolut(pOut[n]))
  /\ \E n \in 1..Len(pOut) : pOut[n].type = "Income" /\ ~Lt0(RawRevolut(pOut[n]))

(***************************************************************************)
(* The upload service                                                      *)
(***************************************************************************)
sRevolut    == <<"r","e","v","o","l","u","t">>
sMillennium == <<"m","i","l","l","e","n","n","i","u","m">>

MsgEmpty == "Formato de arquivo não reconhecido ou vazio."
MsgServer == "Erro ao processar o arquivo no servidor."
MsgImported == "transações importadas com sucesso!"
MsgManual == "Lançamento manual adicionado!"
MsgRule == "Regra de automação criada!"
MsgCleared == "Todas as regras foram removidas."

\* error.message || "Erro ao processar o arquivo no servidor.", for the
\* error file.text() rejects with
ErrorMessage(file) == IF file.error # "" THEN file.error ELSE MsgServer

\* the parser uploadFileService chooses: by the name of the file, then by
\* a semicolon in its text, and the one of Format A otherwise
ChosenParser(file) ==
  (CHOOSE val \in {
     IF includes(fileName, sRevolut) THEN "parseRevolutCSV"
     ELSE IF includes(fileName, sMillennium) \/ includes(file.text, <<";">>)
          THEN "parseMillenniumCSV"
     ELSE "parseRevolutCSV"
   : fileName \in {toLowerCase(file.name)} } : TRUE)

\* what the parser chosen returns
ParsedBy(file, ts, host) ==
  IF ChosenParser(file) = "parseMillenniumCSV" THEN parseMillenniumCSV(file.text, ts, host)
  ELSE parseRevolutCSV(file.text, ts, host)

\* the number of times the parser chosen for the file reads the clock
PushesBy(file) ==
  (CHOOSE val \in {
     IF ChosenParser(file) = "parseMillenniumCSV" THEN MillenniumPushes(lines, Len(lines) - 1)
     ELSE RevolutPushes(lines, 1, Len(lines) - 1)
   : lines \in {split(file.text, "\n")} } : TRUE)

\* parsed.map(t => applyRulesToTransaction(t, autoRules))
Enriched(parsed, rules) ==
  [k \in 1..Len(parsed) |-> applyRulesToTransaction(parsed[k], rules)]

\* mutant: a parse without transactions is reported as a success
uploadFileServiceAcceptsEmpty(file, rules, ts, host) ==
  IF ~file.readable
  THEN [success |-> FALSE, message |-> ErrorMessage(file), hasData |-> FALSE, data |-> << >>]
  ELSE [success |-> TRUE, message |-> MsgImported, hasData |-> TRUE,
        data |-> Enriched(ParsedBy(file, ts, host), rules)]

\* the response the promise of uploadFileService resolves with; file.text()
\* rejects for a file that cannot be read, and the message of its error,
\* when it has one, is the message of the response; a failure has no data
uploadFileService(file, rules, ts, host) ==
  IF ~file.readable
  THEN [success |-> FALSE, message |-> ErrorMessage(file), hasData |-> FALSE, data |-> << >>]
  ELSE (CHOOSE val \in {
          IF Len(parsed) = 0
          THEN [success |-> FALSE, message |-> MsgEmpty, hasData |-> FALSE, data |-> << >>]
          ELSE [success |-> TRUE, message |-> MsgImported, hasData |-> TRUE,
                data |-> Enriched(parsed, rules)]
        : parsed \in {ParsedBy(file, ts, host)} } : TRUE)

(***************************************************************************)
(* Persistence: JSON.stringify into localStorage, JSON.parse out of it     *)
(***************************************************************************)
\* the value JSON.parse gives for null
Null == [null |-> TRUE]

\* Date.prototype.toISOString of the fields of a valid date: four digits
\* for the years 0..9999, a sign and six digits for the others
toISOString(date) ==
  (IF date.y >= 0 /\ date.y <= 9999 THEN PadDigits(date.y, 4)
   ELSE <<IF date.y < 0 THEN "-" ELSE "+">> \o PadDigits(Magnitude(date.y), 6))
    \o <<"-">> \o PadDigits(date.m, 2) \o <<"-">> \o PadDigits(date.d, 2)
    \o <<"T">> \o PadDigits(date.h, 2) \o <<":">> \o PadDigits(date.mi, 2)
    \o <<":">> \o PadDigits(date.s, 2) \o <<".">> \o PadDigits(date.ms, 3) \o <<"Z">>

\* Date.prototype.toJSON: the ISO string of the instant, null for the
\* invalid date
DateToJSON(date) ==
  IF date.valid THEN [null |-> FALSE, iso |-> toISOString(date)] ELSE Null

\* String(n) of the amounts 7.8, 5 and 4.5, those of the files and of the
\* form of the App, as a table: every save writes them again
AmountStrings == [n \in {Dec(78, -1), Dec(5, 0), Dec(45, -1)} |-> NumberToString(n)]

\* JSON.stringify of an amount: null (the amount of a transaction loaded
\* from storage can be null), NaN, Infinity and -Infinity are written as
\* null, a finite number as String writes it
NumberToJSON(n) ==
  IF n = Null THEN Null
  ELSE IF ~isFinite(n) THEN Null
  ELSE [null |-> FALSE,
        text |-> IF n \in DOMAIN AmountStrings THEN AmountStrings[n] ELSE NumberToString(n)]

\* JSON.stringify of an object: a key whose value is undefined is left out
WithoutUndefined(obj, key, value) ==
  IF value = Undefined THEN obj ELSE (key :> value) @@ obj

\* the value read from a key of a parsed object: undefined when the key is absent
Get(obj, key) == IF key \in DOMAIN obj THEN obj[key] ELSE Undefined

\* JSON.stringify of a transaction
TransactionToJSON(tx) ==
  WithoutUndefined(
    [id |-> tx.id, date |-> DateToJSON(tx.date), description |-> tx.description,
     amount |-> NumberToJSON(tx.amount), category |-> tx.category,
     source |-> tx.source, type |-> tx.type],
    "ignored", tx.ignored)

\* JSON.stringify of a rule
RuleToJSON(rule) ==
  WithoutUndefined(
    WithoutUndefined([id |-> rule.id, pattern |-> rule.pattern, type |-> rule.type],
                     "targetCategory", rule.targetCategory),
    "shouldIgnore", rule.shouldIgnore)

\* new Date(value) of a parsed date: new Date(null) is the epoch
NewDateJSON(j, host) ==
  IF j.null THEN DateOf(1970, 1, 1) ELSE NewDateString(j.iso, host)

\* the number JSON.parse gives: null stays null
NumberFromJSON(j) == IF j.null THEN Null ELSE NumberOf(j.text)

\* JSON.parse(saved).map(t => ({ ...t, date: new Date(t.date) })), one element
TransactionFromJSON(j, host) ==
  [id |-> j.id, date |-> NewDateJSON(j.date, host), description |-> j.description,
   amount |-> NumberFromJSON(j.amount), category |-> j.category, source |-> j.source,
   type |-> j.type, ignored |-> Get(j, "ignored")]

\* JSON.parse of a rule
RuleFromJSON(j) ==
  [id |-> j.id, pattern |-> j.pattern, type |-> j.type,
   targetCategory |-> Get(j, "targetCategory"), shouldIgnore |-> Get(j, "shouldIgnore")]

\* useEffect([transactions]): localStorage.setItem('ff_tx', JSON.stringify(transactions))
SaveTransactions(items, txs) ==
  [items EXCEPT !.ff_tx = [k \in 1..Len(txs) |-> TransactionToJSON(txs[k])],
                !.has_tx = TRUE]

\* localStorage.setItem('ff_rules', JSON.stringify(autoRules)) of useEffect([autoRules])
SaveRules(items, rules) ==
  [items EXCEPT !.ff_rules = [k \in 1..Len(rules) |-> RuleToJSON(rules[k])],
                !.has_rules = TRUE]

\* localStorage after both persistence effects have run
SetItems(txs, rules) == SaveRules(SaveTransactions(NoItems, txs), rules)

\* the initialiser of useState<Transaction[]>
LoadTransactions(items, host) ==
  IF ~items.has_tx THEN << >>
  ELSE [k \in 1..Len(items.ff_tx) |-> TransactionFromJSON(items.ff_tx[k], host)]

\* the initialiser of useState<AutoRule[]>
LoadRules(items) ==
  IF ~items.has_rules THEN << >>
  ELSE [k \in 1..Len(items.ff_rules) |-> RuleFromJSON(items.ff_rules[k])]

(***************************************************************************)
(* Inputs of the App                                                       *)
(***************************************************************************)
sRevolutCsv == <<"R","e","v","o","l","u","t",".","c","s","v">>
sBankCsv    == <<"b","a","n","k",".","c","s","v">>

\* a Format A file: a Netflix outflow, a line with too few columns, an inflow
FileA ==
  [name |-> sRevolutCsv,
   text |-> Join(<<sHeaderA,
                   Join(<<Str0, Str0, sDate2, sDate1, dNetflix, <<"-","7",".","8","0">> >>, ","),
                   <<"a", ",", "b">>,
                   Join(<<Str0, Str0, sDate2, Str0, dNet, <<"5">> >>, ",")>>, "\n"),
   readable |-> TRUE, error |-> ""]

\* a Format B file, recognised by its semicolons, with a header and no data line
FileEmpty == [name |-> sBankCsv, text |-> sHeaderB, readable |-> TRUE, error |-> ""]

\* a file with the bytes of FileA whose text cannot be read, the error
\* carrying no message
FileBroken == [name |-> sBankCsv, text |-> FileA.text, readable |-> FALSE, error |-> ""]

\* the same, the error carrying the message of the browser
MsgNotReadable == "The requested file could not be read."

FileDenied == [FileBroken EXCEPT !.error = MsgNotReadable]

Files == {FileA, FileEmpty, FileBroken}

\* the manual form: description, amount, category, type, date
Forms ==
  { [description |-> dNet, amount |-> <<"4",".","5","0">>, category |-> c,
     type |-> "Expense", date |-> sDate1] : c \in {"Food"} }

(***************************************************************************)
(* The App: state after the first render, handlers and effects             *)
(***************************************************************************)
\* the variables no handler of the App writes
otherVars == <<browser, cTx, cRules, cOut1, cOut2, cPc, pFormat, pText, pSheet, pOut, pClock, pPc,
               sTx, sRules, sOutTx, sOutRules, sPc>>

ManualTx(form, t, host) ==
  [id |-> <<"man", 0, t>>,
   date |-> NewDateString(form.date, host),
   description |-> form.description,
   amount |-> parseFloat(form.amount),
   category |-> form.category,
   source |-> "Manual",
   type |-> form.type,
   ignored |-> Undefined]

\* the rule createRuleFromTx builds
NewRule(tx, type, action, t) ==
  [id |-> <<"rule", t>>,
   pattern |-> tx.description,
   type |-> type,
   targetCategory |-> IF action = "category" THEN tx.category ELSE Undefined,
   shouldIgnore |-> IF action = "ignore" THEN "true" ELSE Undefined]

\* what an earlier run of the App has left in localStorage: the 'Netflix'
\* row of a batch of FileA that was classified under an empty rule list, and
\* a 'starts_with' rule made of a manual entry 'Net' of category 'Food'
\* while that upload was in flight; the other transactions were deleted
LeftInStorage(host) ==
  SetItems(<<Enriched(parseRevolutCSV(FileA.text, <<0, 0>>, host), << >>)[1]>>,
           <<NewRule(ManualTx(CHOOSE form \in Forms : TRUE, 0, host), "starts_with", "category", 0)>>)

\* localStorage when the App is mounted: without items, or with the items
\* of an earlier run
StoredItems(host) == {NoItems, LeftInStorage(host)}

\* the state after the first render: the initialisers of useState have read
\* localStorage, the effects of the first render have not run yet; the
\* clock has passed the values the stored ids were made of
Init ==
  /\ browser \in AppHosts
  /\ sItems \in StoredItems(browser)
  /\ transactions = LoadTransactions(sItems, browser)
  /\ autoRules = LoadRules(sItems)
  /\ rulesEffect = TRUE
  /\ upload = NoUpload
  /\ reads = << >>
  /\ isUploading = FALSE
  /\ notification = NoNotification
  /\ now = IF sItems = NoItems THEN 0 ELSE 1
  /\ ClassifyIdle
  /\ ParseIdle
  /\ StoreIdle

\* Date.now() returns t: time has passed, or has not, since it was last read
DateNow(t) ==
  /\ t \in now..MaxNow
  /\ now' = t

\* mutant: the pass re-derives every category from the default 'Other'
ReclassifyAllFromOther(txs, rules) ==
  [k \in 1..Len(txs) |->
     applyRulesToTransaction([txs[k] EXCEPT !.category = "Other"], rules)]

\* mutant: the pass stops after the first transaction
ReclassifyFirstOnly(txs, rules) ==
  [k \in 1..Len(txs) |->
     IF k = 1 THEN applyRulesToTransaction(txs[k], rules) ELSE txs[k]]

\* useEffect([autoRules]): the full re-classification pass
ReclassifyAll(txs, rules) ==
  [k \in 1..Len(txs) |-> applyRulesToTransaction(txs[k], rules)]

\* the effects after a render with a new autoRules, the first render
\* included: ff_rules is written, the pass runs, and the effect of the
\* render with the new transactions writes ff_tx
RulesEffect ==
  /\ rulesEffect
  /\ transactions' = ReclassifyAll(transactions, autoRules)
  /\ sItems' = SetItems(transactions', autoRules)
  /\ rulesEffect' = FALSE
  /\ UNCHANGED <<autoRules, upload, reads, isUploading, notification, now>>
  /\ UNCHANGED otherVars

\* handleFileChange up to its await: the call captures the rule list of the render
HandleFileChangeStart(file) ==
  /\ ~isUploading
  /\ ~upload.active
  /\ isUploading' = TRUE
  /\ upload' = [active |-> TRUE, stage |-> "timer", file |-> file, rules |-> autoRules,
                startedAt |-> now]
  /\ UNCHANGED <<transactions, autoRules, rulesEffect, reads, notification, now, sItems>>
  /\ UNCHANGED otherVars

\* the timer of uploadFileService fires, at t, and its callback runs up to
\* await file.text()
UploadTimerFires(t) ==
  /\ upload.active
  /\ upload.stage = "timer"
  /\ t > upload.startedAt
  /\ t \in now..MaxNow
  /\ now' = t
  /\ upload' = [upload EXCEPT !.stage = "reading"]
  /\ UNCHANGED <<transactions, autoRules, rulesEffect, reads, isUploading, notification, sItems>>
  /\ UNCHANGED otherVars

\* the values Date.now() can return while the file is parsed, the clock
\* being at t before: one for each line the parser keeps, none when the text
\* of the file cannot be read
ReadingsOf(file, t) ==
  IF file.readable THEN ClockReadings(PushesBy(file), t) ELSE { << >> }

\* the clock after the readings ts, having been at t before
LastReading(t, ts) == IF ts = << >> THEN t ELSE ts[Len(ts)]

\* the readings that leave the clock at last or before
ReadingsUpTo(file, t, last) ==
  { ts \in ReadingsOf(file, t) : LastReading(t, ts) <= last }

\* mutant: a failed upload leaves the App busy
HandleFileChangeResumeStaysBusy(last) ==
  /\ upload.active
  /\ upload.stage = "reading"
  /\ \E ts \in ReadingsUpTo(upload.file, now, last) :
       /\ now' = LastReading(now, ts)
       /\ \E response \in {uploadFileService(upload.file, upload.rules, ts, browser)} :
            IF response.success /\ response.hasData
            THEN /\ isUploading' = FALSE
                 /\ transactions' = transactions \o response.data
                 /\ sItems' = SaveTransactions(sItems, transactions')
                 /\ notification' = Notification("success", response.message, Len(response.data))
            ELSE /\ isUploading' = TRUE
                 /\ transactions' = transactions
                 /\ sItems' = sItems
                 /\ notification' = Notification("error", response.message, 0)
  /\ upload' = NoUpload
  /\ UNCHANGED <<autoRules, rulesEffect, reads>>
  /\ UNCHANGED otherVars

\* mutant: the batch replaces the collection
HandleFileChangeResumeOverwrites(last) ==
  /\ upload.active
  /\ upload.stage = "reading"
  /\ \E ts \in ReadingsUpTo(upload.file, now, last) :
       /\ now' = LastReading(now, ts)
       /\ \E response \in {uploadFileService(upload.file, upload.rules, ts, browser)} :
            /\ isUploading' = FALSE
            /\ IF response.success /\ response.hasData
               THEN /\ transactions' = response.data
                    /\ sItems' = SaveTransactions(sItems, transactions')
                    /\ notification' = Notification("success", response.message, Len(response.data))
               ELSE /\ transactions' = transactions
                    /\ sItems' = sItems
                    /\ notification' = Notification("error", response.message, 0)
  /\ upload' = NoUpload
  /\ UNCHANGED <<autoRules, rulesEffect, reads>>
  /\ UNCHANGED otherVars

\* file.text() settles and the callback goes on: the text is parsed, the
\* clock being read for every line kept and not passing last, the batch is
\* classified, the promise resolves and handleFileChange resumes; the effect
\* of the render with the new transactions writes ff_tx
HandleFileChangeResume(last) ==
  /\ upload.active
  /\ upload.stage = "reading"
  /\ \E ts \in ReadingsUpTo(upload.file, now, last) :
       /\ now' = LastReading(now, ts)
       /\ \E response \in {uploadFileService(upload.file, upload.rules, ts, browser)} :
            /\ isUploading' = FALSE
            /\ IF response.success /\ response.hasData
               THEN /\ transactions' = transactions \o response.data
                    /\ sItems' = SaveTransactions(sItems, transactions')
                    /\ notification' = Notification("success", response.message, Len(response.data))
               ELSE /\ transactions' = transactions
                    /\ sItems' = sItems
                    /\ notification' = Notification("error", response.message, 0)
  /\ upload' = NoUpload
  /\ UNCHANGED <<autoRules, rulesEffect, reads>>
  /\ UNCHANGED otherVars

\* the values Date.now() can return while the FileReader of a call of
\* handleFileUpload hands over what it has read
ReadingsOfRead(read, t) ==
  IF read.source = "XLSX" THEN ClockReadings(SheetRows(read.file), t)
  ELSE IF read.source = "Revolut"
  THEN ClockReadings(RevolutPushes(split(read.file.text, "\n"), 1, Iterations(read.file.text)), t)
  ELSE ClockReadings(MillenniumPushes(split(read.file.text, "\n"), Iterations(read.file.text)), t)

\* handleFileUpload(e, source) of src/App.tsx up to its await, or to its
\* end: a FileReader starts to read the file; the callbacks hold the rule
\* list of the render
handleFileUpload(source, file) ==
  /\ reads' = Append(reads, [source |-> source, file |-> file, rules |-> autoRules,
                             state |-> "reading"])
  /\ UNCHANGED <<transactions, autoRules, rulesEffect, upload, isUploading, notification,
                 now, sItems>>
  /\ UNCHANGED otherVars

\* the load event of the FileReader of call k.  For a spreadsheet the
\* promise of parseGenericXLSX is settled: resolved, and handleFileUpload
\* resumes and appends the classified batch, or rejected by the catch around
\* XLSX.read, and handleFileUpload ends with that rejection before
\* setTransactions.  For a delimited file onload parses and appends.  The
\* clock is read for every row, or line kept, and does not pass last.
ReaderLoads(k, last) ==
  /\ reads[k].state = "reading"
  /\ reads[k].file.readable
  /\ \E ts \in { r \in ReadingsOfRead(reads[k], now) : LastReading(now, r) <= last } :
       /\ now' = LastReading(now, ts)
       /\ IF reads[k].source = "XLSX"
          THEN \E promise \in {parseGenericXLSX(reads[k].file, ts, browser)} :
                 IF promise.state = "fulfilled"
                 THEN /\ transactions' = transactions \o Enriched(promise.value, reads[k].rules)
                      /\ sItems' = SaveTransactions(sItems, transactions')
                      /\ reads' = [reads EXCEPT ![k].state = "fulfilled"]
                 ELSE /\ transactions' = transactions
                      /\ sItems' = sItems
                      /\ reads' = [reads EXCEPT ![k].state = promise.state]
          ELSE \E parsed \in {IF reads[k].source = "Revolut"
                              THEN parseRevolutCSV(reads[k].file.text, ts, browser)
                              ELSE parseMillenniumCSV(reads[k].file.text, ts, browser)} :
                 /\ transactions' = transactions \o Enriched(parsed, reads[k].rules)
                 /\ sItems' = SaveTransactions(sItems, transactions')
                 /\ reads' = [reads EXCEPT ![k].state = "loaded"]
  /\ UNCHANGED <<autoRules, rulesEffect, upload, isUploading, notification>>
  /\ UNCHANGED otherVars

\* the error event of the FileReader of call k: no handler is set for it,
\* no code of the App runs, and the promise of parseGenericXLSX is pending
\* for good
ReaderFails(k) ==
  /\ reads[k].state = "reading"
  /\ ~reads[k].file.readable
  /\ reads' = [reads EXCEPT ![k].state = "failed"]
  /\ UNCHANGED <<transactions, autoRules, rulesEffect, upload, isUploading, notification,
                 now, sItems>>
  /\ UNCHANGED otherVars

addManualTransaction(form, t) ==
  /\ DateNow(t)
  /\ transactions' = Append(transactions, applyRulesToTransaction(ManualTx(form, t, browser), autoRules))
  /\ sItems' = SaveTransactions(sItems, transactions')
  /\ notification' = Notification("success", MsgManual, 0)
  /\ UNCHANGED <<autoRules, rulesEffect, upload, reads, isUploading>>
  /\ UNCHANGED otherVars

\* !t.ignored
NotIgnored(g) == IF g = "true" THEN "false" ELSE "true"

toggleIgnore(id) ==
  /\ transactions' = [k \in 1..Len(transactions) |->
                        IF transactions[k].id = id
                        THEN [transactions[k] EXCEPT !.ignored = NotIgnored(@)]
                        ELSE transactions[k]]
  /\ sItems' = SaveTransactions(sItems, transactions')
  /\ UNCHANGED <<autoRules, rulesEffect, upload, reads, isUploading, notification, now>>
  /\ UNCHANGED otherVars

\* the delete button: prev.filter(t => t.id !== tx.id)
deleteTransaction(id) ==
  /\ transactions' = SelectSeq(transactions, LAMBDA t : t.id # id)
  /\ sItems' = SaveTransactions(sItems, transactions')
  /\ UNCHANGED <<autoRules, rulesEffect, upload, reads, isUploading, notification, now>>
  /\ UNCHANGED otherVars

\* the three entries of the menu of a transaction
RuleMenu == { <<"exact", "category">>, <<"starts_with", "category">>, <<"starts_with", "ignore">> }

\* a change of autoRules is rendered after the effect of the render before it ran
createRuleFromTx(tx, type, action, t) ==
  /\ ~rulesEffect
  /\ DateNow(t)
  /\ autoRules' = Append(autoRules, NewRule(tx, type, action, t))
  /\ notification' = Notification("success", MsgRule, 0)
  /\ rulesEffect' = TRUE
  /\ UNCHANGED <<transactions, upload, reads, isUploading, sItems>>
  /\ UNCHANGED otherVars

\* the delete button of a rule: prev.filter(r => r.id !== rule.id)
removeRule(id) ==
  /\ ~rulesEffect
  /\ autoRules' = SelectSeq(autoRules, LAMBDA r : r.id # id)
  /\ rulesEffect' = TRUE
  /\ UNCHANGED <<transactions, upload, reads, isUploading, notification, now, sItems>>
  /\ UNCHANGED otherVars

\* 'Limpar Tudo': setAutoRules([]) gives the state a new array also when
\* the list was empty, so the effect of the next render runs in either case
clearRules ==
  /\ ~rulesEffect
  /\ autoRules' = << >>
  /\ notification' = Notification("success", MsgCleared, 0)
  /\ rulesEffect' = TRUE
  /\ UNCHANGED <<transactions, upload, reads, isUploading, now, sItems>>
  /\ UNCHANGED otherVars

\* the notification is closed, or hidden by its timer
hideNotification ==
  /\ notification # NoNotification
  /\ notification' = NoNotification
  /\ UNCHANGED <<transactions, autoRules, rulesEffect, upload, reads, isUploading, now, sItems>>
  /\ UNCHANGED otherVars

\* the bounds of a specification: the collection holds at most maxTx
\* transactions and the rule list at most maxRules rules
RoomForTx(n, maxTx) == Len(transactions) + n <= maxTx

\* the collection after an import holds at most maxTx transactions
Fits(maxTx) == Len(transactions') <= maxTx

RoomForRule(maxRules) == Len(autoRules) < maxRules

\* the App with every handler and every file, on a clock of 0..MaxAppNow
Next ==
  \/ RulesEffect
  \/ \E file \in Files : HandleFileChangeStart(file)
  \/ \E t \in 0..MaxAppNow : UploadTimerFires(t)
  \/ HandleFileChangeResume(MaxAppNow) /\ Fits(MaxTx)
  \/ \E form \in Forms, t \in 0..MaxAppNow : RoomForTx(1, MaxTx) /\ addManualTransaction(form, t)
  \/ \E k \in 1..Len(transactions) : toggleIgnore(transactions[k].id)
  \/ \E k \in 1..Len(transactions) : deleteTransaction(transactions[k].id)
  \/ \E k \in 1..Len(transactions), e \in RuleMenu, t \in 0..MaxAppNow :
       RoomForRule(MaxRules) /\ createRuleFromTx(transactions[k], e[1], e[2], t)
  \/ \E k \in 1..Len(autoRules) : removeRule(autoRules[k].id)
  \/ clearRules
  \/ hideNotification

Spec == Init /\ [][Next]_vars

\* imports and manual entries into a collection of up to MaxImportTx
\* transactions, under the rules of an empty rule list
NextImport ==
  \/ RulesEffect
  \/ \E file \in Files : HandleFileChangeStart(file)
  \/ \E t \in 0..MaxNow : UploadTimerFires(t)
  \/ HandleFileChangeResume(MaxNow) /\ Fits(MaxImportTx)
  \/ \E form \in Forms, t \in 0..MaxNow :
       RoomForTx(1, MaxImportTx) /\ addManualTransaction(form, t)
  \/ \E k \in 1..Len(transactions) : deleteTransaction(transactions[k].id)

SpecImport == Init /\ [][NextImport]_vars

\* imports, manual entries and changes of the rule list, with up to
\* MaxRuleCount rules, on a clock of 0..MaxAppNow
NextRules ==
  \/ RulesEffect
  \/ HandleFileChangeStart(FileA)
  \/ \E t \in 0..MaxAppNow : UploadTimerFires(t)
  \/ HandleFileChangeResume(MaxAppNow) /\ Fits(MaxTx)
  \/ \E form \in Forms, t \in 0..MaxAppNow : RoomForTx(1, MaxTx) /\ addManualTransaction(form, t)
  \/ \E k \in 1..Len(transactions), e \in RuleMenu, t \in 0..MaxAppNow :
       RoomForRule(MaxRuleCount) /\ createRuleFromTx(transactions[k], e[1], e[2], t)
  \/ \E k \in 1..Len(autoRules) : removeRule(autoRules[k].id)
  \/ clearRules

SpecRules == Init /\ [][NextRules]_vars

\* every operation on the collection, interleaved with one upload of FileA
\* and with changes of a rule list of up to MaxRules rules, in a collection of
\* up to MaxImportTx transactions, on a clock of 0..MaxAppNow
NextInterleave ==
  \/ RulesEffect
  \/ HandleFileChangeStart(FileA)
  \/ \E t \in 0..MaxAppNow : UploadTimerFires(t)
  \/ HandleFileChangeResume(MaxAppNow) /\ Fits(MaxImportTx)
  \/ \E form \in Forms, t \in 0..MaxAppNow :
       RoomForTx(1, MaxImportTx) /\ addManualTransaction(form, t)
  \/ \E k \in 1..Len(transactions) : toggleIgnore(transactions[k].id)
  \/ \E k \in 1..Len(transactions) : deleteTransaction(transactions[k].id)
  \/ \E k \in 1..Len(transactions), e \in RuleMenu, t \in 0..MaxAppNow :
       RoomForRule(MaxRules) /\ createRuleFromTx(transactions[k], e[1], e[2], t)
  \/ \E k \in 1..Len(autoRules) : removeRule(autoRules[k].id)

SpecInterleave == Init /\ [][NextInterleave]_vars

\* the timer of a started upload can fire: the clock can still advance past
\* the start, and the collection has room for the batch and for an entry
\* made meanwhile
CanFinish == now < MaxNow /\ RoomForTx(3, MaxImportTx)

\* uploads of every file next to manual entries and deletions; the timer set
\* by uploadFileService fires once it is due
NextUpload ==
  \/ RulesEffect
  \/ \E file \in Files \cup {FileDenied} : CanFinish /\ HandleFileChangeStart(file)
  \/ \E t \in 0..MaxNow : UploadTimerFires(t)
  \/ HandleFileChangeResume(MaxNow)
  \/ \E form \in Forms, t \in 0..MaxNow :
       RoomForTx(IF upload.active THEN 3 ELSE 1, MaxImportTx) /\ addManualTransaction(form, t)
  \/ \E k \in 1..Len(transactions) : toggleIgnore(transactions[k].id)
  \/ \E k \in 1..Len(transactions) : deleteTransaction(transactions[k].id)
  \/ hideNotification

\* a step of the upload in flight: the timer of uploadFileService fires, or
\* file.text() settles and handleFileChange resumes.  Nothing but the clock
\* holds the first back, and nothing the second
UploadProceeds ==
  /\ upload.active
  /\ upload' = IF upload.stage = "timer" THEN [upload EXCEPT !.stage = "reading"] ELSE NoUpload

SpecUpload ==
  /\ Init
  /\ [][NextUpload]_vars
  /\ WF_upload(UploadProceeds)

\* the files handed to handleFileUpload, each with the source chosen for it
SheetChoices ==
  { <<"XLSX", SheetGood>>, <<"XLSX", SheetCorrupt>>, <<"XLSX", SheetUnreadable>>,
    <<"Revolut", FileA>>, <<"Millennium", FileBroken>> }

\* the imports of both versions of the App, handleFileChange with
\* uploadFileService and handleFileUpload with parseGenericXLSX, of files
\* that can be read and decoded and of files that cannot, next to manual
\* entries; up to MaxReads calls of handleFileUpload
NextFiles ==
  \/ RulesEffect
  \/ \E file \in {FileA, FileBroken} : RoomForTx(2, MaxImportTx) /\ HandleFileChangeStart(file)
  \/ \E t \in 0..MaxAppNow : UploadTimerFires(t)
  \/ HandleFileChangeResume(MaxAppNow) /\ Fits(MaxImportTx)
  \/ \E choice \in SheetChoices :
       Len(reads) < MaxReads /\ handleFileUpload(choice[1], choice[2])
  \/ \E k \in 1..Len(reads) : ReaderLoads(k, MaxAppNow) /\ Fits(MaxImportTx)
  \/ \E k \in 1..Len(reads) : ReaderFails(k)
  \/ \E form \in Forms, t \in 0..MaxAppNow :
       RoomForTx(1, MaxImportTx) /\ addManualTransaction(form, t)

SpecFiles == Init /\ [][NextFiles]_vars

(***************************************************************************)
(* Claims about the App                                                    *)
(***************************************************************************)
\* the values Date.now() can have returned to the parser in this step, a
\* step in which handleFileChange resumes
ResumeReadings ==
  { ts \in ReadingsOf(upload.file, now) : LastReading(now, ts) = now' }

\* index in rules of the first rule matching tx, 0 when none matches
FirstRuleFor(tx, rules) ==
  IF \E i \in 1..Len(rules) : RuleMatches(toLowerCase(tx.description), rules[i])
  THEN CHOOSE i \in 1..Len(rules) :
         /\ RuleMatches(toLowerCase(tx.description), rules[i])
         /\ \A j \in 1..(i - 1) : ~RuleMatches(toLowerCase(tx.description), rules[j])
  ELSE 0

\* the category the keyword map gives tx, 'Other' when it gives none
KeywordCategory(tx) ==
  LET hits == { k \in 1..Len(DEFAULT_CATEGORY_MAP) :
                  includes(toLowerCase(tx.description), DEFAULT_CATEGORY_MAP[k][1]) }
  IN IF hits = {} THEN "Other"
     ELSE DEFAULT_CATEGORY_MAP[CHOOSE k \in hits : \A j \in hits : k <= j][2]

\* tx holds the category the keyword fallback assigns to it
KeywordAssigned(tx) == tx.category # "Other" /\ tx.category = KeywordCategory(tx)

\* this step is the re-classification pass of useEffect([autoRules])
PassStep == rulesEffect /\ ~rulesEffect'

\* the last rule of the list is the first one that matches tx
NewestRuleDecides(tx) ==
  Len(autoRules) > 0 /\ FirstRuleFor(tx, autoRules) = Len(autoRules)

\* C6 (the claim as stated): on the pass after a rule change, a stored
\* transaction with a keyword-assigned category that the newest rule is the
\* first to match gets that rule's targetCategory; and no pass lets the
\* keyword fallback replace a category other than 'Other'.
C6_RuleOverridesKeyword ==
  [][PassStep =>
       \A k \in 1..Len(transactions) :
         /\ (KeywordAssigned(transactions[k]) /\ NewestRuleDecides(transactions[k]))
              => transactions'[k].category = autoRules[Len(autoRules)].targetCategory
         /\ (transactions[k].category # "Other"
               /\ FirstRuleFor(transactions[k], autoRules) = 0)
              => transactions'[k].category = transactions[k].category]_vars

\* C6 (amended): the same, for a newest rule that defines a targetCategory; a
\* rule without one leaves the keyword-assigned category as it is.
C6_RuleWithTargetOverridesKeyword ==
  [][PassStep =>
       \A k \in 1..Len(transactions) :
         /\ (KeywordAssigned(transactions[k]) /\ NewestRuleDecides(transactions[k]))
              => transactions'[k].category =
                   IF autoRules[Len(autoRules)].targetCategory # Undefined
                   THEN autoRules[Len(autoRules)].targetCategory
                   ELSE transactions[k].category
         /\ (transactions[k].category # "Other"
               /\ FirstRuleFor(transactions[k], autoRules) = 0)
              => transactions'[k].category = transactions[k].category]_vars

\* createRuleFromTx has just added a rule, and the pass is due over a
\* transaction whose keyword-assigned category this newest rule, the first
\* to match it, replaces by another one
C6_Witness ==
  /\ rulesEffect
  /\ notification.message = MsgRule
  /\ \E k \in 1..Len(transactions) :
       /\ KeywordAssigned(transactions[k])
       /\ NewestRuleDecides(transactions[k])
       /\ autoRules[Len(autoRules)].targetCategory \notin {Undefined, transactions[k].category}
       /\ applyRulesToTransaction(transactions[k], autoRules).category
            = autoRules[Len(autoRules)].targetCategory

\* the category applyRulesToTransaction gives tx from the default 'Other'
FromScratch(tx) ==
  applyRulesToTransaction([tx EXCEPT !.category = "Other"], autoRules).category

Settled ==
  \A k \in 1..Len(transactions) :
    applyRulesToTransaction(transactions[k], autoRules).category = transactions[k].category

\* this step appends the batch of an upload that was classified under a rule
\* list which is no longer the current one
StaleAppend ==
  /\ upload.active /\ ~upload'.active
  /\ upload.rules # autoRules
  /\ Len(transactions') > Len(transactions)

C8_PassIsAtomic ==
  [][/\ PassStep =>
          /\ autoRules' = autoRules
          /\ Len(transactions') = Len(transactions)
          /\ \A k \in 1..Len(transactions) :
               transactions'[k] = applyRulesToTransaction(transactions[k], autoRules)
     /\ autoRules' # autoRules => (transactions' = transactions /\ rulesEffect')]_vars

\* a pass has re-classified both transactions of the collection
C8_Witness ==
  /\ ~rulesEffect
  /\ ~upload.active
  /\ Len(transactions) = 2
  /\ Len(autoRules) = 1
  /\ autoRules[1].shouldIgnore = "true"
  /\ \A k \in 1..2 :
       /\ transactions[k].source = "Revolut"
       /\ FirstRuleFor(transactions[k], autoRules) = 1
       /\ transactions[k].ignored = "true"

\* the fields no operation changes
Frame(tx) == <<tx.id, tx.date, tx.description, tx.amount, tx.source, tx.type>>

\* C9: every step keeps id, date, description, amount, source and type of
\* every stored transaction (a deletion removes transactions and changes
\* none); a transaction enters the collection with the frame its parser or
\* the manual form gave it; and a transaction that no rule matches keeps its
\* ignored value through classification (the keyword fallback changes the
\* category only).
C9_FrameKept ==
  [][/\ Len(transactions') >= Len(transactions) =>
          \A k \in 1..Len(transactions) :
            Frame(transactions'[k]) = Frame(transactions[k])
     /\ Len(transactions') < Len(transactions) =>
          \E id \in {transactions[k].id : k \in 1..Len(transactions)} :
            transactions' = SelectSeq(transactions, LAMBDA tx : tx.id # id)
     /\ (upload.active /\ ~upload'.active /\ Len(transactions') > Len(transactions)) =>
          \E ts \in ResumeReadings :
            LET parsed == ParsedBy(upload.file, ts, browser)
            IN /\ Len(transactions') = Len(transactions) + Len(parsed)
               /\ \A k \in 1..Len(parsed) :
                    /\ Frame(transactions'[Len(transactions) + k]) = Frame(parsed[k])
                    /\ FirstRuleFor(parsed[k], upload.rules) = 0 =>
                         transactions'[Len(transactions) + k].ignored = parsed[k].ignored
     /\ (upload'.active = upload.active /\ Len(transactions') > Len(transactions)) =>
          /\ Len(transactions') = Len(transactions) + 1
          /\ \E form \in Forms :
               /\ Frame(transactions'[Len(transactions')]) = Frame(ManualTx(form, now', browser))
               /\ FirstRuleFor(ManualTx(form, now', browser), autoRules) = 0 =>
                    transactions'[Len(transactions')].ignored = Undefined
     /\ PassStep =>
          \A k \in 1..Len(transactions) :
            FirstRuleFor(transactions[k], autoRules) = 0 =>
              transactions'[k].ignored = transactions[k].ignored]_vars

\* an imported transaction that the keyword fallback categorised and the
\* user then ignored still has the frame its parser gave it
C9_Witness ==
  \E k \in 1..Len(transactions) :
    /\ transactions[k].source = "Revolut"
    /\ transactions[k].category = "Entertainment"
    /\ transactions[k].ignored = "true"
    /\ autoRules = << >>
    /\ \E ts \in ReadingsOf(FileA, 0) :
         \E n \in 1..Len(ParsedBy(FileA, ts, browser)) :
           Frame(transactions[k]) = Frame(ParsedBy(FileA, ts, browser)[n])

\* the description column of line i (0-based) of a Format A text
DescriptionOfLine(text, i) ==
  RemoveAll(Col(split(split(text, "\n")[i + 1], ","), 4), "\"")

\* C10: an import appends its batch after the transactions of the collection,
\* which stay as they are and in their order, and the batch holds the
\* transactions of the accepted rows in the order of the rows.
C10_ImportOrderKept ==
  [][(upload.active /\ ~upload'.active /\ transactions' # transactions) =>
       LET old == Len(transactions)
           batch == SubSeq(transactions', old + 1, Len(transactions'))
       IN /\ Len(transactions') > old
          /\ SubSeq(transactions', 1, old) = transactions
          /\ \A a \in 1..Len(batch) : \A b \in 1..Len(batch) :
               a < b => batch[a].id[2] < batch[b].id[2]
          /\ \A a \in 1..Len(batch) :
               batch[a].description = DescriptionOfLine(upload.file.text, batch[a].id[2])]_vars

\* a batch of two rows, with a rejected line between them, stands after a
\* manual entry; the clock went on between the two rows
C10_Witness ==
  /\ Len(transactions) = 3
  /\ transactions[1].source = "Manual"
  /\ transactions[2].source = "Revolut" /\ transactions[2].id[2] = 1
  /\ transactions[3].source = "Revolut" /\ transactions[3].id[2] = 3
  /\ transactions[2].id[3] < transactions[3].id[3]
  /\ ~upload.active

(***************************************************************************)
(* Persistence: the collections and rule lists that are stored             *)
(***************************************************************************)
\* data lines of Format A with a date column that is ISO, empty or not a date
sNotADate == <<"s","o","o","n">>

StoreRevolutLines ==
  { Join(<<Str0, Str0, d2, d3, desc, a>>, ",") :
      d2 \in {Str0, sDate2}, d3 \in {Str0, sDate1, sNotADate},
      desc \in {dNetflix, dCafe}, a \in { <<"-","7",".","8","0">>, <<"5">>, sInfinity } }

\* data lines of Format B with a date of three parts, or of one
StoreMillenniumLines ==
  { Join(<<d, Str0, sPingo, debit, Str0>>, ";") :
      d \in {sDateB, sNotADate}, debit \in { <<"1","2",",","5","0">>, Str0 } }

\* rule lists of the persisted state
StoreRuleLists ==
  { << >>,
    <<Rule(dNet, "starts_with", <<Undefined, "true">>)>>,
    <<Rule(dNet, "exact", <<"Food", Undefined>>), Rule(dEmpty, "starts_with", <<Undefined, Undefined>>)>> }

\* the transactions the parsers and the manual form give, classified
StoreTransactions(rules, host) ==
  UNION { { Enriched(parseRevolutCSV(Join(<<sHeaderA, l>>, "\n"), <<0>>, host), rules)[1] :
              l \in StoreRevolutLines },
          { Enriched(parseMillenniumCSV(Join(<<sHeaderB, l>>, "\n"), <<0>>, host), rules)[1] :
              l \in StoreMillenniumLines },
          { applyRulesToTransaction(ManualTx(form, 0, host), rules) : form \in Forms } }

(***************************************************************************)
(* Specification of the persistence alone                                  *)
(***************************************************************************)
InitStore ==
  /\ AppIdle
  /\ ClassifyIdle
  /\ ParseIdle
  /\ browser \in StoreHosts
  /\ sRules \in StoreRuleLists
  /\ sTx \in SeqsUpTo(StoreTransactions(sRules, browser), MaxStored)
  /\ sItems = NoItems
  /\ sOutTx = << >>
  /\ sOutRules = << >>
  /\ sPc = "in"

\* the effects after a render with the rule list sRules: ff_rules is
\* written, the pass runs over the collection, and ff_tx is written
Persist ==
  /\ sPc = "in"
  /\ sTx' = ReclassifyAll(sTx, sRules)
  /\ sItems' = SetItems(sTx', sRules)
  /\ sPc' = "saved"
  /\ UNCHANGED <<sRules, sOutTx, sOutRules>>
  /\ UNCHANGED appVars
  /\ UNCHANGED classifyVars
  /\ UNCHANGED parseVars

\* the App is mounted again: the initialisers read both items
Load ==
  /\ sPc = "saved"
  /\ sOutTx' = LoadTransactions(sItems, browser)
  /\ sOutRules' = LoadRules(sItems)
  /\ sPc' = "loaded"
  /\ UNCHANGED <<sTx, sRules, sItems>>
  /\ UNCHANGED appVars
  /\ UNCHANGED classifyVars
  /\ UNCHANGED parseVars

\* the effects of the first render of the App that was mounted again: the
\* pass runs over what was loaded, and both items are written anew
Mount ==
  /\ sPc = "loaded"
  /\ sOutTx' = ReclassifyAll(sOutTx, sOutRules)
  /\ sItems' = SetItems(sOutTx', sOutRules)
  /\ sPc' = "mounted"
  /\ UNCHANGED <<sTx, sRules, sOutRules>>
  /\ UNCHANGED appVars
  /\ UNCHANGED classifyVars
  /\ UNCHANGED parseVars

NextStore == Persist \/ Load \/ Mount

SpecStore == InitStore /\ [][NextStore]_vars

Counted(tx) == tx.ignored # "true"

\* the reducer of totals: the amount goes to income or to expense
RECURSIVE Reduce(_, _)
Reduce(acc, txs) ==
  IF txs = << >> THEN acc
  ELSE Reduce(IF Head(txs).type = "Income"
              THEN [acc EXCEPT !.income = Plus(@, Head(txs).amount)]
              ELSE [acc EXCEPT !.expense = Plus(@, Head(txs).amount)],
              Tail(txs))

\* mutant: the totals count ignored transactions too
totalsOfAll(txs) == Reduce([income |-> Num(0), expense |-> Num(0)], txs)

\* totals: transactions.filter(t => !t.ignored).reduce(...)
totals(txs) == Reduce([income |-> Num(0), expense |-> Num(0)], SelectSeq(txs, Counted))

\* map[t.category] = (map[t.category] || 0) + t.amount; the entries keep the
\* order in which their keys were first set
AddToCategory(map, tx) ==
  IF \E k \in 1..Len(map) : map[k].name = tx.category
  THEN [k \in 1..Len(map) |->
          IF map[k].name = tx.category
          THEN [map[k] EXCEPT !.value =
                  Plus(IF isNaN(@) \/ IsZero(@) THEN Num(0) ELSE @, tx.amount)]
          ELSE map[k]]
  ELSE Append(map, [name |-> tx.category, value |-> Plus(Num(0), tx.amount)])

RECURSIVE ForEach(_, _)
ForEach(map, txs) ==
  IF txs = << >> THEN map ELSE ForEach(AddToCategory(map, Head(txs)), Tail(txs))

\* categoryData: the sums of the non-ignored expenses by category
categoryData(txs) ==
  ForEach(<< >>, SelectSeq(txs, LAMBDA tx : tx.type = "Expense" /\ Counted(tx)))

\* the sum of the amounts of the stored transactions at the positions of S,
\* added in the order of the collection
RECURSIVE SumAt(_)
SumAt(S) ==
  IF S = {} THEN Num(0)
  ELSE LET k == CHOOSE j \in S : \A i \in S : i <= j
       IN Plus(SumAt(S \ {k}), transactions[k].amount)

\* positions of the non-ignored transactions of a type
CountedOfType(type) ==
  { k \in 1..Len(transactions) :
      transactions[k].type = type /\ transactions[k].ignored # "true" }

\* the aggregates are those of the non-ignored transactions
AggregatesExcludeIgnored ==
  /\ totals(transactions) = [income |-> SumAt(CountedOfType("Income")),
                             expense |-> SumAt(CountedOfType("Expense"))]
  /\ LET data == categoryData(transactions)
     IN /\ {data[e].name : e \in 1..Len(data)} =
             {transactions[k].category : k \in CountedOfType("Expense")}
        /\ \A e \in 1..Len(data) : \A f \in 1..Len(data) :
             data[e].name = data[f].name => e = f
        /\ \A e \in 1..Len(data) :
             data[e].value =
               SumAt({k \in CountedOfType("Expense") :
                        transactions[k].category = data[e].name})

\* a step of toggleIgnore, or of the pass in which a rule sets ignored, keeps
\* every transaction in the collection, at its position and with its frame
IgnoringKeepsStored ==
  ((\E k \in 1..Len(transactions) : toggleIgnore(transactions[k].id)) \/ RulesEffect)
  => /\ Len(transactions') = Len(transactions)
     /\ \A k \in 1..Len(transactions) : Frame(transactions'[k]) = Frame(transactions[k])

\* C12: in every state totals.income and totals.expense are the sums of the
\* amounts of the non-ignored Income and Expense transactions, categoryData
\* holds one sum per category of the non-ignored Expense transactions, and
\* no step that sets or clears ignored removes a transaction.
C12_IgnoredExcludedNotRemoved ==
  [](AggregatesExcludeIgnored) /\ [][IgnoringKeepsStored]_vars

\* an ignored expense is stored next to a counted income, and only the income
\* is in the aggregates
C12_Witness ==
  /\ Len(transactions) = 2
  /\ transactions[1].type = "Expense" /\ transactions[1].ignored = "true"
  /\ transactions[2].type = "Income" /\ transactions[2].ignored # "true"
  /\ totals(transactions) = [income |-> transactions[2].amount, expense |-> Num(0)]
  /\ categoryData(transactions) = << >>

(***************************************************************************)
(* Claims about the rows the parsers accept                                *)
(***************************************************************************)
\* the data lines of the parsed text are numbered from 1
DataLines == 1..(Len(split(pText, "\n")) - 1)

\* the parser returned a transaction for data line i
Accepted(i) == \E n \in 1..Len(pOut) : pOut[n].id[2] = i

\* the number of transactions the parser returned for data line i
CountFor(i) == Cardinality({n \in 1..Len(pOut) : pOut[n].id[2] = i})

\* the columns of data line i of a Format B text
MillenniumCols(i) == split(LineOf(i), ";")

CommaColumns(line) == 1 + Cardinality({k \in 1..Len(line) : line[k] = ","})

\* s begins, after white space and a sign, with a digit, with a point and a
\* digit, or with the word Infinity: the strings parseFloat gives a number for
LooksNumeric(s) ==
  \E k \in 1..Len(s) :
    /\ \A j \in 1..(k - 1) : IsSpace(s[j])
    /\ LET m == IF s[k] \in {"-", "+"} THEN k + 1 ELSE k
       IN /\ m <= Len(s)
          /\ \/ IsDigit(s[m])
             \/ s[m] = "." /\ m + 1 <= Len(s) /\ IsDigit(s[m + 1])
             \/ OccursAt(s, sInfinity, m)

\* data line i of a Format A text has 6 columns or more and a numeric column 5
WellFormedRevolut(i) ==
  /\ CommaColumns(LineOf(i)) >= 6
  /\ LooksNumeric(Col(split(LineOf(i), ","), 5))

\* C14: a Format A line after the first with fewer than 6 columns or a
\* column 5 that is no number gives no transaction, every other line after
\* the first gives exactly one, whatever lines stand before it; the output
\* has as many transactions as there are well-formed lines after the first.
C14_RevolutSkipsMalformed ==
  (pPc = "done" /\ pFormat = "Revolut") =>
    /\ \A i \in DataLines : CountFor(i) = IF WellFormedRevolut(i) THEN 1 ELSE 0
    /\ \A n \in 1..Len(pOut) : pOut[n].id[2] \in DataLines
    /\ Len(pOut) = Cardinality({i \in DataLines : WellFormedRevolut(i)})

\* a malformed line stands before a well-formed one, which alone is returned
C14_Witness ==
  /\ pPc = "done" /\ pFormat = "Revolut"
  /\ DataLines = {1, 2}
  /\ ~WellFormedRevolut(1)
  /\ WellFormedRevolut(2)
  /\ Len(pOut) = 1
  /\ pOut[1].id[2] = 2

\* the columns of the line a Format A transaction came from
RevolutColsOf(tx) == split(LineOf(tx.id[2]), ",")

\* the description and the amount of a Format A transaction are those of
\* columns 4 and 5 of its line
RevolutDescriptionAndAmount(tx) ==
  /\ tx.description = SelectSeq(Col(RevolutColsOf(tx), 4), LAMBDA c : c # "\"")
  /\ tx.amount = Abs(parseFloat(Col(RevolutColsOf(tx), 5)))

\* C15 (the claim as stated): the date of a Format A transaction is built
\* from column 3 and, when column 3 is empty, from column 4; the description
\* is column 4 without its double quotes; the amount is column 5.
C15_DateFromColumn3Or4 ==
  (pPc = "done" /\ pFormat = "Revolut") =>
    \A n \in 1..Len(pOut) :
      /\ pOut[n].date =
           NewDateString(IF Col(RevolutColsOf(pOut[n]), 3) # Str0
                         THEN Col(RevolutColsOf(pOut[n]), 3)
                         ELSE Col(RevolutColsOf(pOut[n]), 4), browser)
      /\ RevolutDescriptionAndAmount(pOut[n])

\* C15 (amended): the same, with the date built from column 2 when column 3
\* is empty.
C15_DateFromColumn3Or2 ==
  (pPc = "done" /\ pFormat = "Revolut") =>
    \A n \in 1..Len(pOut) :
      /\ pOut[n].date =
           NewDateString(IF Col(RevolutColsOf(pOut[n]), 3) # Str0
                         THEN Col(RevolutColsOf(pOut[n]), 3)
                         ELSE Col(RevolutColsOf(pOut[n]), 2), browser)
      /\ RevolutDescriptionAndAmount(pOut[n])

\* a transaction of a line with an empty column 3 has the date of column 2,
\* and a description that lost its quotes
C15_Witness ==
  /\ pPc = "done" /\ pFormat = "Revolut"
  /\ \E n \in 1..Len(pOut) :
       /\ Col(RevolutColsOf(pOut[n]), 3) = Str0
       /\ Col(RevolutColsOf(pOut[n]), 2) = sDate2
       /\ pOut[n].date = DateOf(2024, 1, 4)
       /\ Col(RevolutColsOf(pOut[n]), 4) = sUberQ
       /\ pOut[n].description = <<"U","b","e","r">>

\* the description cell of a Format C row: the cell under the first header
\* with a description word, else the cell under the second header, the
\* headers taken in the order of Object.keys; undefined when the row has
\* neither
DescriptionCell(row) ==
  LET keys == Keys(row)
      hit(k) == \E w \in DescWords : includes(toLowerCase(keys[k]), w)
  IN IF \E k \in 1..Len(keys) : hit(k)
     THEN Cell(row, StrVal(keys[CHOOSE k \in 1..Len(keys) :
                                  hit(k) /\ \A j \in 1..(k - 1) : ~hit(j)]))
     ELSE IF Len(keys) >= 2 THEN Cell(row, StrVal(keys[2])) ELSE Undef

\* a cell that is there and is not the empty string
Filled(cell) == cell.def /\ (cell.num \/ cell.s # Str0)

\* the number of transactions parseGenericXLSX returned for row r (0-based)
CountForRow(r) == Cardinality({n \in 1..Len(pOut) : pOut[n].id[2] = r})

\* C16 (the claim as stated): a Format C row whose amount is no finite
\* number, or whose description cell is empty or missing, is absent from the
\* output; every other row gives exactly one transaction.
C16_XlsxDropsRowsWithoutDescription ==
  (pPc = "done" /\ pFormat = "XLSX") =>
    \A r \in 0..(Len(pSheet.rows) - 1) :
      CountForRow(r) =
        IF /\ isFinite(RawXlsx([id |-> <<"xls", r, 0>>]))
           /\ Filled(DescriptionCell(pSheet.rows[r + 1]))
        THEN 1 ELSE 0

(***************************************************************************)
(* Claims about failed imports                                             *)
(***************************************************************************)
\* this step is handleFileChange resuming after the await
ResumeStep == upload.active /\ ~upload'.active

\* C17: when the selected parser returns no transaction, uploadFileService
\* resolves with success = false, a message and no data, and handleFileChange
\* leaves the collection as it is and shows an error notification.
C17_EmptyParseIsFailure ==
  [][(ResumeStep /\ upload.file.readable) =>
       \A ts \in ResumeReadings :
         Len(ParsedBy(upload.file, ts, browser)) = 0 =>
           /\ ~uploadFileService(upload.file, upload.rules, ts, browser).success
           /\ ~uploadFileService(upload.file, upload.rules, ts, browser).hasData
           /\ uploadFileService(upload.file, upload.rules, ts, browser).message = MsgEmpty
           /\ transactions' = transactions
           /\ notification'.type = "error"
           /\ notification'.message = MsgEmpty]_vars

\* the import of a file without data lines ended in the error notification,
\* with the collection of before
C17_Witness ==
  /\ ~upload.active
  /\ ~isUploading
  /\ notification = Notification("error", MsgEmpty, 0)
  /\ Len(transactions) = 2

\* call k of handleFileUpload, of a spreadsheet, sees in this step the read
\* of its file fail, or the decoding of what was read
SheetFails(k) ==
  /\ reads[k].source = "XLSX"
  /\ reads[k].state = "reading"
  /\ reads'[k].state # "reading"
  /\ ~reads[k].file.readable \/ ~reads[k].file.decodable

\* C18 (the claim as stated): when reading or decoding the file fails, the
\* import attempt ends as one failure and the collection after the attempt
\* is the collection before it: handleFileChange is no longer busy and shows
\* the error notification, uploadFileService having resolved with success =
\* false and no data; the promise of parseGenericXLSX is rejected, and
\* handleFileUpload ends with it before it appends anything.
C18_WholeFileFailure ==
  [][/\ (ResumeStep /\ ~upload.file.readable) =>
          /\ \A ts \in ResumeReadings :
               /\ ~uploadFileService(upload.file, upload.rules, ts, browser).success
               /\ ~uploadFileService(upload.file, upload.rules, ts, browser).hasData
          /\ transactions' = transactions
          /\ ~isUploading'
          /\ notification'.type = "error"
     /\ \A k \in 1..Len(reads) :
          SheetFails(k) =>
            /\ reads'[k].state = "rejected"
            /\ transactions' = transactions]_vars

\* what holds of every import attempt whose read or decoding fails: the
\* step in which it fails leaves the collection and localStorage as they
\* are, and a spreadsheet whose read failed stays as it is from then on, its
\* promise neither resolved nor rejected
FailedAttemptAddsNothing ==
  [][/\ (ResumeStep /\ ~upload.file.readable) =>
          (transactions' = transactions /\ sItems' = sItems)
     /\ \A k \in 1..Len(reads) :
          /\ SheetFails(k) => (transactions' = transactions /\ sItems' = sItems)
          /\ reads[k].state = "failed" => reads'[k] = reads[k]]_vars

\* the read of a spreadsheet has failed and its import attempt has not ended
PendingForGood ==
  \E k \in 1..Len(reads) : reads[k].source = "XLSX" /\ reads[k].state = "failed"

(***************************************************************************)
(* Claims about the edges of the rule engine                               *)
(***************************************************************************)
\* cTx with the category and ignored that rule gives it
DecidedBy(rule) ==
  [cTx EXCEPT
     !.category = IF rule.targetCategory # Undefined THEN rule.targetCategory ELSE @,
     !.ignored = IF rule.shouldIgnore # Undefined THEN rule.shouldIgnore ELSE @]

\* cTx as the keyword map alone classifies it
ByKeywordOnly ==
  IF cTx.category = "Other" THEN [cTx EXCEPT !.category = KeywordCategory(cTx)] ELSE cTx

\* C19: a 'starts_with' rule with the empty pattern standing first decides
\* every transaction; an 'exact' rule with the empty pattern standing first
\* decides the transactions with the empty description and has no effect on
\* the others; applyRulesToTransaction returns a transaction for every rule
\* list, and for the empty list the one the keyword fallback alone gives.
C19_EmptyPatternAndTotality ==
  cPc # "in" =>
    /\ (Len(cRules) >= 1 /\ cRules[1].pattern = Str0 /\ cRules[1].type = "starts_with")
         => cOut1 = DecidedBy(cRules[1])
    /\ (Len(cRules) >= 1 /\ cRules[1].pattern = Str0 /\ cRules[1].type = "exact")
         => cOut1 = IF cTx.description = Str0 THEN DecidedBy(cRules[1])
                    ELSE applyRulesToTransaction(cTx, Tail(cRules))
    /\ cOut1.category \in Category
    /\ cOut1.ignored \in {Undefined, "true", "false"}
    /\ [cOut1 EXCEPT !.category = "Other", !.ignored = Undefined]
         = [cTx EXCEPT !.category = "Other", !.ignored = Undefined]
    /\ cRules = << >> => cOut1 = ByKeywordOnly

\* an empty prefix pattern standing first gives its category to a
\* transaction with a non-empty description that a later rule matches too
C19_Witness ==
  /\ cPc = "once"
  /\ Len(cRules) = 2
  /\ cRules[1].pattern = Str0 /\ cRules[1].type = "starts_with"
  /\ cRules[1].targetCategory = "Food"
  /\ cRules[2].targetCategory = "Transport"
  /\ RuleMatches(toLowerCase(cTx.description), cRules[2])
  /\ cTx.description = dNetflix
  /\ cTx.category = "Other"
  /\ cOut1.category = "Food"

\* C20: when the first matching rule defines neither targetCategory nor
\* shouldIgnore, the result equals the input field for field.
C20_InertRuleIsNoOp ==
  cPc # "in" =>
    \A i \in 1..Len(cRules) :
      (IsFirstMatch(i) /\ cRules[i].targetCategory = Undefined
                       /\ cRules[i].shouldIgnore = Undefined)
        => cOut1 = cTx

\* an inert rule matches first, before a rule that would set a category, and
\* the ignored transaction comes back as it was
C20_Witness ==
  /\ cPc = "once"
  /\ Len(cRules) = 2
  /\ IsFirstMatch(1)
  /\ cRules[1].targetCategory = Undefined /\ cRules[1].shouldIgnore = Undefined
  /\ RuleMatches(toLowerCase(cTx.description), cRules[2])
  /\ cRules[2].targetCategory = "Food"
  /\ cTx.ignored = "true"
  /\ cTx.category = "Other"
  /\ cOut1 = cTx

(***************************************************************************)
(* Claims about matching and the keyword map                               *)
(***************************************************************************)
\* the lower-cased description of cTx holds a keyword of the default map
HoldsKeyword == FirstKeywordIndex(toLowerCase(cTx.description)) # 0

\* C21: when a rule matches, the result is the one of the first matching
\* rule and the keyword map is not consulted, also when that rule has no
\* targetCategory: a transaction with category 'Other' whose description
\* holds a mapped keyword and whose first matching rule sets shouldIgnore
\* only keeps category 'Other'.
C21_MatchEndsClassification ==
  cPc # "in" =>
    \A i \in 1..Len(cRules) :
      IsFirstMatch(i) =>
        /\ cOut1 = DecidedBy(cRules[i])
        /\ (cRules[i].targetCategory = Undefined /\ cTx.category = "Other")
             => cOut1.category = "Other"

\* 'Netflix', category 'Other', matched by a rule that only sets
\* shouldIgnore: ignored and still 'Other'
C21_Witness ==
  /\ cPc = "once"
  /\ cTx.description = dNetflix
  /\ cTx.category = "Other"
  /\ HoldsKeyword
  /\ \E i \in 1..Len(cRules) :
       /\ IsFirstMatch(i)
       /\ cRules[i].targetCategory = Undefined
       /\ cRules[i].shouldIgnore = "true"
  /\ cOut1.category = "Other"
  /\ cOut1.ignored = "true"

\* two characters that differ at most in their case
SameLetter(a, b) == LowerChar(a) = LowerChar(b)

\* a string whose lower case is the lower case of its characters, one by
\* one: it holds no capital sigma, no capital I with a dot and no surrogate
LowerCasedByLetter(s) ==
  \A k \in 1..Len(s) : s[k] \notin {"Σ", "U+0130"} /\ ~IsHighSurrogate(s[k])

\* the lower-cased description d equals the lower-cased pattern p: for
\* strings lower-cased letter by letter, d and p are equal letter case apart
EqualsIgnoringCase(d, p) ==
  IF LowerCasedByLetter(d) /\ LowerCasedByLetter(p)
  THEN Len(d) = Len(p) /\ \A k \in 1..Len(p) : SameLetter(d[k], p[k])
  ELSE toLowerCase(d) = toLowerCase(p)

\* the lower-cased description d begins with the lower-cased pattern p
BeginsIgnoringCase(d, p) ==
  IF LowerCasedByLetter(d) /\ LowerCasedByLetter(p)
  THEN Len(p) <= Len(d) /\ \A k \in 1..Len(p) : SameLetter(d[k], p[k])
  ELSE /\ Len(toLowerCase(p)) <= Len(toLowerCase(d))
       /\ \A k \in 1..Len(toLowerCase(p)) : toLowerCase(d)[k] = toLowerCase(p)[k]

\* the match of a rule as the modes define it
ModeMatches(d, rule) ==
  IF rule.type = "exact" THEN EqualsIgnoringCase(d, rule.pattern)
  ELSE BeginsIgnoringCase(d, rule.pattern)

\* C22: the first rule of the list decides the transaction exactly when its
\* mode matches: an 'exact' rule when the lower-cased description equals the
\* lower-cased pattern, a 'starts_with' rule when the lower-cased description
\* begins with it; otherwise the result is the one of the rest of the list.
\* An 'exact' rule with pattern NETFLIX does not match 'Netflix Sub', which
\* the keyword map then classifies Entertainment when its category is 'Other'.
C22_ModeSpecificMatch ==
  cPc # "in" =>
    /\ Len(cRules) >= 1 =>
         cOut1 = IF ModeMatches(cTx.description, cRules[1])
                 THEN DecidedBy(cRules[1])
                 ELSE applyRulesToTransaction(cTx, Tail(cRules))
    /\ (/\ cTx.description = dNetSub
        /\ cTx.category = "Other"
        /\ \A i \in 1..Len(cRules) :
             cRules[i].type = "exact" /\ cRules[i].pattern = dNETFLIX)
         => cOut1.category = "Entertainment"

\* the only rule is 'exact' NETFLIX with target Food; 'Netflix Sub' becomes
\* Entertainment, not Food
C22_Witness ==
  /\ cPc = "once"
  /\ Len(cRules) = 1
  /\ cRules[1].type = "exact" /\ cRules[1].pattern = dNETFLIX
  /\ cRules[1].targetCategory = "Food"
  /\ cTx.description = dNetSub
  /\ cTx.category = "Other"
  /\ cOut1.category = "Entertainment"

(***************************************************************************)
(* Claims about the stored collection                                      *)
(***************************************************************************)
\* C23: the stored transactions have pairwise distinct ids, after any
\* sequence of imports and manual entries.
C23_IdsUnique ==
  \A i \in 1..Len(transactions) : \A j \in 1..Len(transactions) :
    transactions[i].id = transactions[j].id => i = j

\* C24: whenever no upload is in flight and no re-classification pass is
\* due, classifying a stored transaction under the current rule list leaves
\* its category as it is.
C24_NoStaleClassification ==
  (~upload.active /\ ~rulesEffect) =>
    \A k \in 1..Len(transactions) :
      applyRulesToTransaction(transactions[k], autoRules).category
        = transactions[k].category

\* the step is the deletion of the transactions with some stored id
DeletionStep ==
  \E k \in 1..Len(transactions) : deleteTransaction(transactions[k].id)

\* C25: every step works on the collection as the step before left it: but
\* for the deletion of a transaction, every stored transaction stays at its
\* position with its frame, and a step that adds transactions (a finished
\* import, a manual entry) leaves the stored ones as they are, field for
\* field, also those added or changed while the upload was in flight.
C25_NoLostUpdate ==
  [][/\ DeletionStep
        \/ /\ Len(transactions') >= Len(transactions)
           /\ \A k \in 1..Len(transactions) :
                Frame(transactions'[k]) = Frame(transactions[k])
     /\ Len(transactions') > Len(transactions) =>
          SubSeq(transactions', 1, Len(transactions)) = transactions]_vars

\* a manual entry made while the upload was in flight, and set ignored, stands
\* before the batch that the upload appended
C25_Witness ==
  /\ ~upload.active
  /\ notification.type = "success" /\ notification.count = 2
  /\ Len(transactions) = 3
  /\ transactions[1].id = <<"man", 0, 1>>
  /\ transactions[1].ignored = "true"
  /\ transactions[2].source = "Revolut"
  /\ transactions[3].source = "Revolut"
  /\ transactions[2].id[3] = 1

\* the keywords of the default map that the lower-cased description holds,
\* by their place in the declaration
KeywordsHeld ==
  { k \in 1..Len(DEFAULT_CATEGORY_MAP) :
      includes(toLowerCase(cTx.description), DEFAULT_CATEGORY_MAP[k][1]) }

\* C26: when no rule matches and the category is 'Other', the category
\* becomes the one of the keyword declared earliest among those the
\* lower-cased description holds, wherever they stand in it, and stays
\* 'Other' when it holds none; nothing else changes. A description holding
\* 'uber' gets Transport whatever other keyword it holds, and the Format A
\* row "Uber Trip", -7.80 ends as amount 7.80, Expense, Transport.
C26_EarliestDeclaredKeyword ==
  (cPc # "in" /\ NoRuleMatches /\ cTx.category = "Other") =>
    /\ KeywordsHeld = {} => cOut1 = cTx
    /\ KeywordsHeld # {} =>
         /\ \E k \in KeywordsHeld :
              /\ \A j \in KeywordsHeld : k <= j
              /\ cOut1 = [cTx EXCEPT !.category = DEFAULT_CATEGORY_MAP[k][2]]
    /\ 1 \in KeywordsHeld => cOut1.category = "Transport"
    /\ cTx \in ParsedInputs(browser) =>
         /\ cOut1.amount = Num(780)
         /\ cOut1.type = "Expense"
         /\ cOut1.category = "Transport"

\* 'edp Uber' holds 'edp' before 'uber', and 'uber' is declared first:
\* Transport
C26_Witness ==
  /\ cPc = "once"
  /\ NoRuleMatches
  /\ cTx.description = dEdpUber
  /\ cTx.category = "Other"
  /\ {1, 12} \subseteq KeywordsHeld
  /\ cOut1.category = "Transport"

(***************************************************************************)
(* Claims about the ignore decision of a rule                              *)
(***************************************************************************)
\* C27: the pass after a change of the rule list gives every stored
\* transaction whose first matching rule defines shouldIgnore that value,
\* whatever its ignored was, and leaves the ignored of every other
\* transaction (no matching rule, or a first matching rule without
\* shouldIgnore) as it was.
C27_PassReimposesIgnore ==
  [][PassStep =>
       /\ Len(transactions') = Len(transactions)
       /\ \A k \in 1..Len(transactions) :
            LET m == FirstRuleFor(transactions[k], autoRules)
            IN transactions'[k].ignored =
                 IF m # 0 /\ autoRules[m].shouldIgnore # Undefined
                 THEN autoRules[m].shouldIgnore
                 ELSE transactions[k].ignored]_vars

\* after the pass of an ignore rule made from the 'Netflix' row: that row is
\* ignored, and the 'Net' row, which the rule does not match, still holds
\* the value the user's toggles left
C27_Witness ==
  /\ ~rulesEffect
  /\ Len(autoRules) = 1
  /\ autoRules[1].pattern = dNetflix /\ autoRules[1].shouldIgnore = "true"
  /\ Len(transactions) = 2
  /\ transactions[1].description = dNetflix /\ transactions[1].ignored = "true"
  /\ transactions[2].description = dNet /\ transactions[2].ignored = "false"

(***************************************************************************)
(* Claims about the first line of a text                                   *)
(***************************************************************************)
\* the text with its first line replaced by h
WithFirstLine(text, h) == Join(<<h>> \o Tail(split(text, "\n")), "\n")

\* the parser of the format, Format A or Format B
ParserOf(format, text, ts, host) ==
  IF format = "Revolut" THEN parseRevolutCSV(text, ts, host)
  ELSE parseMillenniumCSV(text, ts, host)

\* the first line of the parsed text alone would be accepted as a data row
FirstLineIsData ==
  IF pFormat = "Revolut" THEN RevolutRow(split(pText, "\n")[1], 1, now, browser) # << >>
  ELSE MillenniumRow(split(pText, "\n")[1], 1, now, browser) # << >>

\* C28: parseRevolutCSV and parseMillenniumCSV make no transaction of the
\* first line of the text: every transaction comes from a later line, the
\* output is the one of the same text under any other first line, and a text
\* of one line gives no transaction, also when that line is a well-formed
\* data row.
C28_FirstLineSkipped ==
  (pPc = "done" /\ pFormat \in {"Revolut", "Millennium"}) =>
    /\ \A n \in 1..Len(pOut) : pOut[n].id[2] >= 1
    /\ \A h \in (IF pFormat = "Revolut" THEN FirstLinesA ELSE FirstLinesB) \cup {Str0} :
         pOut = ParserOf(pFormat, WithFirstLine(pText, h), pClock, browser)
    /\ Len(split(pText, "\n")) = 1 => pOut = << >>

\* a Format A text of two well-formed data rows and no header: one
\* transaction, made of the second row
C28_Witness ==
  /\ pPc = "done"
  /\ pFormat = "Revolut"
  /\ FirstLineIsData
  /\ Len(split(pText, "\n")) = 2
  /\ WellFormedRevolut(1)
  /\ Len(pOut) = 1
  /\ pOut[1].id[2] = 1

(***************************************************************************)
(* Claims about the deletion of a transaction                              *)
(***************************************************************************)
\* the sequence without its element at position k
RemoveAt(seq, k) == SubSeq(seq, 1, k - 1) \o SubSeq(seq, k + 1, Len(seq))

\* C29: the delete button of the transaction at position k leaves the
\* collection without that one transaction, the others unchanged and in
\* their order, and the rule list as it was.
C29_DeleteRemovesOne ==
  [][\A k \in 1..Len(transactions) :
       deleteTransaction(transactions[k].id) =>
         /\ transactions' = RemoveAt(transactions, k)
         /\ autoRules' = autoRules]_vars

(***************************************************************************)
(* Claims about the end of an upload                                       *)
(***************************************************************************)
\* the upload in flight can take its next step: there is a clock value at
\* which its timer fires, or the timer has fired and file.text() settles
ResumeCanFire ==
  \/ upload.stage = "reading"
  \/ \E t \in now..MaxNow : t > upload.startedAt

\* C30: every started upload ends; uploadFileService resolves with success
\* and a non-empty data list or with a failure and no data, and the step in
\* which handleFileChange resumes sets isUploading to false and shows one
\* notification, of type success with the batch appended or of type error
\* with the collection as it was.
C30_UploadCompletes ==
  /\ [][ResumeStep =>
         \E ts \in ResumeReadings :
         \E response \in {uploadFileService(upload.file, upload.rules, ts, browser)} :
           /\ \/ response.success /\ response.hasData /\ Len(response.data) > 0
              \/ ~response.success /\ ~response.hasData /\ response.data = << >>
           /\ ~isUploading'
           /\ notification' =
                Notification(IF response.success THEN "success" ELSE "error",
                             response.message, Len(response.data))
           /\ transactions' = transactions \o response.data]_vars
  /\ [](upload.active => isUploading /\ ResumeCanFire)
  /\ (upload.active ~> (~upload.active /\ ~isUploading))

\* an upload has ended in success: the App is no longer busy, the batch is
\* stored and the notification tells its size
C30_Witness ==
  /\ ~upload.active
  /\ ~isUploading
  /\ now = MaxNow
  /\ notification.type = "success" /\ notification.count = 2
  /\ Len(transactions) = 2
  /\ transactions[1].source = "Revolut"

====
